---- MODULE Spec2Model ----
(***************************************************************************)
(* Model of the pyvider cty type descriptors (src/types): the primitive   *)
(* descriptors CtyBool, CtyNumber and CtyString, the collections CtyList,  *)
(* CtyMap and CtySet, and the structural descriptors CtyObject, CtyTuple   *)
(* and CtyDynamic, with their validate / equal / usable_as operations, the *)
(* CtyObject builders and the CtySet updates.                              *)
(*                                                                         *)
(* Python values are tagged tuples <<tag, payload>>; the tag is the name   *)
(* of the value's Python class, so isinstance is a test on the tag.        *)
(***************************************************************************)
EXTENDS Integers, Sequences, FiniteSets, TLC

VARIABLES
    pc,        \* position of the caller: which call has returned last
    self,      \* the descriptor a call is made on
    arg,       \* the raw value handed to the call
    ret,       \* outcome of the call (a returned value or a raised error)
    again,     \* outcome of validating the returned value once more
    other,     \* the second descriptor of an equal / usable_as call
    objects,   \* the CtyObject instances that exist, by identity (index)
    sets       \* the CtySet instances that exist, by identity (index)

vars == <<pc, self, arg, ret, again, other, objects, sets>>

(***************************************************************************)
(* Python values                                                           *)
(***************************************************************************)
PyNone == <<"NoneType", 0>>
PyBool(b) == <<"bool", b>>
PyInt(n) == <<"int", n>>
PyFloat(n) == <<"float", n>>
PyStr(s) == <<"str", s>>
PyList(seq) == <<"list", seq>>
PyTuple(seq) == <<"tuple", seq>>
PyDict(f) == <<"dict", f>>
PySet(S) == <<"set", S>>

TypeName(v) == v[1]
Payload(v) == v[2]

\* isinstance(v, (int, float)): bool is a subclass of int in Python.
IsIntOrFloat(v) == TypeName(v) \in {"bool", "int", "float"}
IsBool(v) == TypeName(v) = "bool"
IsStr(v) == TypeName(v) = "str"

CtyTypeNames ==
    {"CtyBool", "CtyNumber", "CtyString", "CtyList", "CtyMap", "CtySet",
     "CtyObject", "CtyTuple", "CtyDynamic"}

\* isinstance(v, CtyType)
IsCtyType(v) == TypeName(v) \in CtyTypeNames

\* The number a bool, int or float stands for (True is 1, False is 0).
NumericValue(v) ==
    IF TypeName(v) = "bool" THEN (IF Payload(v) THEN 1 ELSE 0) ELSE Payload(v)

(***************************************************************************)
(* Outcomes of a call: a returned value, or a raised exception.  The       *)
(* message of an exception is kept as the sequence of its parts, outermost *)
(* first; each part holds its text and the names the text interpolates.    *)
(***************************************************************************)
Part(text, names) == [text |-> text, names |-> names]
NoError == [cls |-> "", parts |-> <<>>]
Ok(v) == [ok |-> TRUE, value |-> v, err |-> NoError]
Raise(cls, parts) == [ok |-> FALSE, value |-> PyNone, err |-> [cls |-> cls, parts |-> parts]]
NotCalled == [ok |-> FALSE, value |-> PyNone, err |-> [cls |-> "not called", parts |-> <<>>]]

\* raise cls(f"{text}{names}: {e}") from e
Wrap(cls, text, names, inner) ==
    Raise(cls, <<Part(text, names)>> \o inner.err.parts)

\* Every name an error message mentions, at any nesting level.
NamesIn(outcome) ==
    UNION {outcome.err.parts[i].names : i \in DOMAIN outcome.err.parts}

(***************************************************************************)
(* Primitive descriptors.  An instance carries a value; validate returns a *)
(* new instance carrying the validated value.                              *)
(***************************************************************************)
CtyBool(value) == <<"CtyBool", value>>
CtyNumber(value) == <<"CtyNumber", value>>
CtyString(value) == <<"CtyString", value>>

\* The descriptors as a schema author writes them: CtyBool(), CtyNumber(), CtyString().
BoolType == CtyBool(PyBool(FALSE))
NumberType == CtyNumber(PyFloat(0))
StringType == CtyString(PyStr(""))

CtyBool_validate(value) ==
    IF IsBool(value)
    THEN Ok(CtyBool(value))
    ELSE Raise("ValidationError", <<Part("Value must be a boolean.", {})>>)

CtyNumber_validate(value) ==
    IF ~IsIntOrFloat(value)
    THEN Raise("ValidationError", <<Part("Value must be a number.", {})>>)
    ELSE Ok(CtyNumber(value))

CtyString_validate(value) ==
    IF ~IsStr(value)
    THEN Raise("ValidationError", <<Part("Value must be a string.", {})>>)
    ELSE Ok(CtyString(value))

(***************************************************************************)
(* Composite descriptors                                                   *)
(***************************************************************************)
CtyList(element_type) == <<"CtyList", element_type>>
CtySet(element_type, value) == <<"CtySet", [element_type |-> element_type, value |-> value]>>
CtyTuple(types) == <<"CtyTuple", types>>
CtyDynamic == <<"CtyDynamic", 0>>
\* map.py takes `field` from dataclasses in an attrs class, so the default of
\* value_type, metadata, default and mutable is a dataclasses.Field object,
\* one per attribute.
FieldDefault(name) == <<"Field", name>>
MappingProxy(f) == <<"mappingproxy", f>>
CtyMap(key_type, value_type, metadata, default, mutable) ==
    <<"CtyMap", [key_type |-> key_type, value_type |-> value_type,
                 metadata |-> metadata, default |-> default, mutable |-> mutable]>>
CtyObject(attribute_types, optional, computed, block, sensitive) ==
    <<"CtyObject", [attribute_types |-> attribute_types,
                    optional_attributes |-> optional,
                    computed_attributes |-> computed,
                    block_attributes |-> block,
                    sensitive_attributes |-> sensitive]>>

(***************************************************************************)
(* Python equality (a == b) and hashing, as the classes define them        *)
(***************************************************************************)
IsBuiltinNumber(v) == TypeName(v) \in {"bool", "int", "float"}

IsMapping(v) == TypeName(v) \in {"dict", "mappingproxy"}

RECURSIVE PyEq(_, _)
RECURSIVE Equal(_, _)
\* a.__eq__(b) for a descriptor instance a; the __eq__ attrs generates for
\* CtyObject gives NotImplemented for another class, and Python then asks b.
RECURSIVE CtyEq(_, _)
CtyEq(a, b) ==
    CASE TypeName(a) \in {"CtyBool", "CtyTuple", "CtyDynamic"} -> IsCtyType(b)
      [] TypeName(a) = "CtyMap" ->
            /\ TypeName(b) = "CtyMap"
            /\ Equal(Payload(a).key_type, Payload(b).key_type)
            /\ Equal(Payload(a).value_type, Payload(b).value_type)
            /\ PyEq(Payload(a).metadata, Payload(b).metadata)
            /\ PyEq(Payload(a).default, Payload(b).default)
      [] TypeName(a) = "CtyObject" ->
            IF TypeName(b) = "CtyObject"
            THEN /\ DOMAIN Payload(a).attribute_types = DOMAIN Payload(b).attribute_types
                 /\ \A n \in DOMAIN Payload(a).attribute_types :
                       PyEq(Payload(a).attribute_types[n], Payload(b).attribute_types[n])
                 /\ Payload(a).optional_attributes = Payload(b).optional_attributes
                 /\ Payload(a).computed_attributes = Payload(b).computed_attributes
                 /\ Payload(a).block_attributes = Payload(b).block_attributes
                 /\ Payload(a).sensitive_attributes = Payload(b).sensitive_attributes
            ELSE IsCtyType(b) /\ CtyEq(b, a)
      [] TypeName(a) \in {"CtyNumber", "CtyString"} ->
            TypeName(b) = TypeName(a) /\ PyEq(Payload(a), Payload(b))
      [] TypeName(a) = "CtyList" ->
            TypeName(b) = "CtyList" /\ PyEq(Payload(a), Payload(b))
      [] TypeName(a) = "CtySet" ->
            /\ TypeName(b) = "CtySet"
            /\ PyEq(Payload(a).element_type, Payload(b).element_type)
            /\ PyEq(PySet(Payload(a).value), PySet(Payload(b).value))
      [] OTHER -> a = b

PyEq(a, b) ==
    CASE IsCtyType(a) -> CtyEq(a, b)
      [] IsCtyType(b) -> CtyEq(b, a)
      [] IsBuiltinNumber(a) /\ IsBuiltinNumber(b) -> NumericValue(a) = NumericValue(b)
      [] IsMapping(a) /\ IsMapping(b) ->
            /\ Cardinality(DOMAIN Payload(a)) = Cardinality(DOMAIN Payload(b))
            /\ \A k \in DOMAIN Payload(a) : \E j \in DOMAIN Payload(b) :
                   PyEq(k, j) /\ PyEq(Payload(a)[k], Payload(b)[j])
      [] TypeName(a) # TypeName(b) -> FALSE
      [] TypeName(a) \in {"list", "tuple"} ->
            /\ Len(Payload(a)) = Len(Payload(b))
            /\ \A i \in DOMAIN Payload(a) : PyEq(Payload(a)[i], Payload(b)[i])
      [] TypeName(a) = "set" ->
            /\ Cardinality(Payload(a)) = Cardinality(Payload(b))
            /\ \A x \in Payload(a) : \E y \in Payload(b) : PyEq(x, y)
      [] OTHER -> a = b

\* a != b: no class here defines __ne__, so it is the negation of ==.
PyNe(a, b) == ~PyEq(a, b)

\* Values whose hash() raises TypeError.
RECURSIVE Hashable(_)
Hashable(v) ==
    CASE TypeName(v) \in {"list", "dict", "mappingproxy", "set", "CtySet", "CtyMap", "CtyObject",
                          "CtyTuple", "CtyDynamic"} -> FALSE
      [] TypeName(v) = "tuple" -> \A i \in DOMAIN Payload(v) : Hashable(Payload(v)[i])
      [] TypeName(v) \in {"CtyBool", "CtyNumber", "CtyList"} -> Hashable(Payload(v))
      [] OTHER -> TRUE

\* Two values have the same hash() exactly when they have the same HashKey.
RECURSIVE HashKey(_)
HashKey(v) ==
    CASE IsBuiltinNumber(v) -> <<"number", NumericValue(v)>>
      [] TypeName(v) \in {"CtyBool", "CtyNumber"} -> HashKey(Payload(v))   \* hash(self.value)
      [] TypeName(v) = "CtyString" -> <<"class", "CtyString">>             \* hash((self.__class__,))
      [] TypeName(v) = "CtyList" -> <<"CtyList", HashKey(Payload(v))>>
      [] TypeName(v) = "tuple" -> <<"tuple", [i \in DOMAIN Payload(v) |-> HashKey(Payload(v)[i])]>>
      [] OTHER -> v

\* x is found in the Python set S: same hash and equal.
PySetHas(S, x) == \E y \in S : HashKey(y) = HashKey(x) /\ PyEq(y, x)

\* S after S.add(x): a member equal to x keeps its place.
PySetAdd(S, x) == IF PySetHas(S, x) THEN S ELSE S \cup {x}

(***************************************************************************)
(* Python containers                                                       *)
(***************************************************************************)
\* k in d, for a dict payload d (a function from keys to values)
DictHas(d, k) == \E j \in DOMAIN d : HashKey(j) = HashKey(k) /\ PyEq(j, k)
\* d[k]
DictGet(d, k) == d[CHOOSE j \in DOMAIN d : HashKey(j) = HashKey(k) /\ PyEq(j, k)]

\* Every order in which a set can be iterated (Python fixes none).
RECURSIVE Orders(_)
Orders(S) ==
    IF S = {} THEN {<<>>}
    ELSE UNION {{<<x>> \o rest : rest \in Orders(S \ {x})} : x \in S}

\* hasattr(v, '__iter__') and not isinstance(v, (str, bytes))
IsIterable(v) == TypeName(v) \in {"list", "tuple", "dict", "set", "CtySet"}

\* not v, for an iterable v (CtySet defines neither __bool__ nor __len__: always true)
IsFalsy(v) ==
    CASE TypeName(v) \in {"list", "tuple"} -> Payload(v) = <<>>
      [] TypeName(v) = "dict" -> DOMAIN Payload(v) = {}
      [] TypeName(v) = "set" -> Payload(v) = {}
      [] OTHER -> FALSE

\* The sequences enumerate(v) can yield for an iterable v.
Iterations(v) ==
    CASE TypeName(v) \in {"list", "tuple"} -> {Payload(v)}
      [] TypeName(v) = "dict" -> Orders(DOMAIN Payload(v))
      [] TypeName(v) = "set" -> Orders(Payload(v))
      [] TypeName(v) = "CtySet" -> Orders(Payload(v).value)
      [] OTHER -> {}

\* Native classes, as CtyTuple holds them in its slots.
PyClass(name) == <<"type", name>>
\* isinstance(v, cls) for a native class cls (bool is a subclass of int)
IsInstanceOf(v, cls) ==
    \/ TypeName(v) = Payload(cls)
    \/ TypeName(v) = "bool" /\ Payload(cls) = "int"
    \/ Payload(cls) = "object"

(***************************************************************************)
(* validate.  Validate(T, v) is the set of outcomes T.validate(v) can      *)
(* have: one outcome, except where the code iterates a set or a dict whose *)
(* order Python does not fix.                                              *)
(***************************************************************************)
RECURSIVE Validate(_, _)

\* CtyList.validate, lines 44-53: the loop over the elements from index i on.
RECURSIVE CtyList_items(_, _, _)
CtyList_items(element_type, items, i) ==
    IF i > Len(items) THEN {Ok(<<>>)}
    ELSE UNION {
        IF h.ok
        THEN {IF t.ok THEN Ok(<<h.value>> \o t.value) ELSE t :
                 t \in CtyList_items(element_type, items, i + 1)}
        ELSE {Wrap("ValidationError", "Invalid element at index", {ToString(i - 1)}, h)}
        : h \in Validate(element_type, items[i])}

\* A validate without the branch for None.
CtyList_validate_no_none(this, value) ==
    IF TypeName(value) \notin {"list", "tuple"}
    THEN {Raise("PyviderError", <<Part("Expected list or tuple, got", {TypeName(value)})>>)}
    ELSE {IF r.ok THEN Ok(PyList(r.value)) ELSE r :
             r \in CtyList_items(Payload(this), Payload(value), 1)}

CtyList_validate(this, value) ==
    IF value = PyNone THEN {Ok(PyList(<<>>))}
    ELSE IF TypeName(value) \notin {"list", "tuple"}
    THEN {Raise("PyviderError", <<Part("Expected list or tuple, got", {TypeName(value)})>>)}
    ELSE {IF r.ok THEN Ok(PyList(r.value)) ELSE r :
             r \in CtyList_items(Payload(this), Payload(value), 1)}

\* CtySet.validate, lines 35-45: one item of the loop; a value that cannot be
\* hashed makes validated.add raise TypeError, which the loop catches too.
CtySet_item(element_type, item) ==
    IF TypeName(item) = "set"
    THEN {Raise("ValidationError", <<Part("Nested sets are not allowed in CtySet.", {})>>)}
    ELSE {IF r.ok /\ ~Hashable(r.value)
          THEN Raise("TypeError", <<Part("unhashable type", {TypeName(r.value)})>>)
          ELSE r : r \in Validate(element_type, item)}

\* The loop over items[i..]: acc is [validated, errors] so far.
RECURSIVE CtySet_items(_, _, _, _)
CtySet_items(element_type, items, i, acc) ==
    IF i > Len(items) THEN {acc}
    ELSE UNION {
        CtySet_items(element_type, items, i + 1,
            IF r.ok
            THEN [acc EXCEPT !.validated = PySetAdd(@, r.value)]
            ELSE [acc EXCEPT !.errors = @ \o <<Part("Item", {ToString(i - 1)})>> \o r.err.parts])
        : r \in CtySet_item(element_type, items[i])}

CtySet_validate(this, value) ==
    LET element_type == Payload(this).element_type IN
    IF value = PyNone THEN {Ok(CtySet(element_type, {}))}
    ELSE IF ~IsIterable(value)
    THEN {Raise("ValidationError", <<Part("Expected iterable, got", {TypeName(value)})>>)}
    ELSE IF IsFalsy(value) THEN {Ok(CtySet(element_type, {}))}
    ELSE {IF acc.errors # <<>>
          THEN Raise("ValidationError", <<Part("CtySet validation failed:", {})>> \o acc.errors)
          ELSE Ok(CtySet(element_type, acc.validated)) :
             acc \in UNION {CtySet_items(element_type, items, 1, [validated |-> {}, errors |-> <<>>]) :
                               items \in Iterations(value)}}

\* CtyTuple.validate: a slot holding anything but a class makes isinstance raise TypeError.
CtyTuple_validate(this, value) ==
    LET types == Payload(this)
        bad == {i \in DOMAIN types : TypeName(types[i]) # "type" \/ ~IsInstanceOf(Payload(value)[i], types[i])}
        first == CHOOSE i \in bad : \A j \in bad : i <= j
    IN
    IF TypeName(value) # "tuple"
    THEN {Raise("ValidationError", <<Part("Expected a tuple, got", {TypeName(value)})>>)}
    ELSE IF Len(Payload(value)) # Len(types)
    THEN {Raise("ValidationError", <<Part("Expected elements", {ToString(Len(types))})>>)}
    ELSE IF bad = {} THEN {Ok(PyNone)}
    ELSE IF TypeName(types[first]) # "type"
    THEN {Raise("TypeError", <<Part("isinstance() arg 2 must be a type", {ToString(first - 1)})>>)}
    ELSE {Raise("ValidationError", <<Part("Element expected type", {ToString(first - 1)})>>)}

CtyDynamic_validate(value) ==
    IF TypeName(value) \in {"dict", "list", "int", "float", "bool", "str", "NoneType"}
    THEN {Ok(PyNone)}
    ELSE {Raise("ValidationError", <<Part("Unsupported value for CtyDynamic.", {})>>)}

(***************************************************************************)
(* CtyObject                                                               *)
(***************************************************************************)
AttributeNames(this) == DOMAIN Payload(this).attribute_types

required_attributes(this) ==
    {name \in AttributeNames(this) :
        /\ name \notin Payload(this).optional_attributes
        /\ name \notin Payload(this).computed_attributes}

\* A loop that skips an absent optional attribute without storing a null for it.
CtyObject_attributes_omitting(this, value) ==
    LET o == Payload(this)
        present == {name \in AttributeNames(this) : DictHas(value, PyStr(name))}
        outcomes(name) == Validate(o.attribute_types[name], DictGet(value, PyStr(name)))
        choices == {f \in [present -> UNION {outcomes(name) : name \in present}] :
                       \A name \in present : f[name] \in outcomes(name) /\ f[name].ok}
    IN
    {Ok(PyDict([k \in {PyStr(name) : name \in present} |-> f[Payload(k)].value])) : f \in choices}
    \cup
    UNION {{Wrap("ValidationError", "Invalid value for attribute", {name}, r) :
               r \in {x \in outcomes(name) : ~x.ok}} : name \in present}

\* Lines 147-179: the loop over attribute_types.  The model keeps attribute_types
\* as a function, so the order of the loop (the dict's insertion order) is left
\* open: any attribute whose value is invalid can be the first one met.
CtyObject_attributes(this, value) ==
    LET o == Payload(this)
        present == {name \in AttributeNames(this) : DictHas(value, PyStr(name))}
        absent == {name \in AttributeNames(this) \ present :
                      name \in o.optional_attributes \/ name \in o.computed_attributes}
        outcomes(name) == Validate(o.attribute_types[name], DictGet(value, PyStr(name)))
        choices == {f \in [present -> UNION {outcomes(name) : name \in present}] :
                       \A name \in present : f[name] \in outcomes(name) /\ f[name].ok}
    IN
    {Ok(PyDict([k \in {PyStr(name) : name \in present \cup absent} |->
                   IF Payload(k) \in present THEN f[Payload(k)].value ELSE PyNone])) :
        f \in choices}
    \cup
    UNION {{Wrap("ValidationError",
                 IF r.err.cls = "ValidationError" THEN "Invalid value for attribute"
                                                  ELSE "Error validating attribute",
                 {name}, r) : r \in {x \in outcomes(name) : ~x.ok}} : name \in present}

CtyObject_validate(this, value) ==
    LET missing == {name \in required_attributes(this) : ~DictHas(Payload(value), PyStr(name))}
        unknown_attrs == {k \in DOMAIN Payload(value) :
                             \A name \in AttributeNames(this) : ~PyEq(k, PyStr(name))}
    IN
    IF value = PyNone THEN {Ok(PyNone)}
    ELSE IF TypeName(value) # "dict"
    THEN {Raise("ValidationError", <<Part("Expected a dictionary, got", {TypeName(value)})>>)}
    ELSE IF missing # {}
    THEN \* the loop over the frozenset raises at the first missing name it meets
         {Raise("ValidationError", <<Part("Missing required attribute:", {name})>>) : name \in missing}
    ELSE IF unknown_attrs # {}
    THEN IF \E k \in unknown_attrs : ~IsStr(k)
         THEN {Raise("TypeError", <<Part("sequence item: expected str instance", {})>>)}
         ELSE {Raise("ValidationError", <<Part("Unknown attributes:", {Payload(k) : k \in unknown_attrs})>>)}
    ELSE CtyObject_attributes(this, Payload(value))

\* CtyMap.__attrs_post_init__, lines 30-51: a dict handed in as metadata or
\* default is copied, and wrapped read-only when `mutable` is falsy.
Truthy(v) ==
    CASE TypeName(v) = "bool" -> Payload(v)
      [] TypeName(v) = "NoneType" -> FALSE
      [] OTHER -> TRUE
CtyMap_stored(m, mutable) ==
    IF TypeName(m) = "dict" /\ ~Truthy(mutable) THEN MappingProxy(Payload(m)) ELSE m
CtyMap_init(key_type, value_type, metadata, default, mutable) ==
    IF ~IsCtyType(value_type)
    THEN Raise("ValidationError", <<Part("Expected a valid CtyType for value_type", {})>>)
    ELSE IF key_type # PyNone /\ ~IsCtyType(key_type)
    THEN Raise("ValidationError", <<Part("Expected a valid CtyType for key_type", {})>>)
    ELSE Ok(CtyMap(IF key_type = PyNone THEN StringType ELSE key_type, value_type,
                   CtyMap_stored(metadata, mutable), CtyMap_stored(default, mutable), mutable))

\* `x.value if isinstance(x, CtyType) else x`, lines 64, 68 and 71: only the
\* primitives and CtySet have a value attribute.
CtyMap_unwrap(x) ==
    IF ~IsCtyType(x) THEN Ok(x)
    ELSE IF TypeName(x) \in {"CtyBool", "CtyNumber", "CtyString"} THEN Ok(Payload(x))
    ELSE IF TypeName(x) = "CtySet" THEN Ok(PySet(Payload(x).value))
    ELSE Raise("AttributeError", <<Part("object has no attribute 'value'", {TypeName(x)})>>)

RECURSIVE CtyMap_unwrap_items(_, _)
CtyMap_unwrap_items(items, i) ==
    IF i > Len(items) THEN Ok(<<>>)
    ELSE LET h == CtyMap_unwrap(items[i])
             t == CtyMap_unwrap_items(items, i + 1)
         IN  IF ~h.ok THEN h ELSE IF ~t.ok THEN t ELSE Ok(<<h.value>> \o t.value)

RECURSIVE CtyMap_validate(_, _)
RECURSIVE CtyMap_wrap_value(_, _)

\* The list comprehension of line 80, from index i on.
RECURSIVE CtyMap_wrap_items(_, _, _)
CtyMap_wrap_items(this, items, i) ==
    IF i > Len(items) THEN {Ok(<<>>)}
    ELSE UNION {
        IF h.ok
        THEN {IF t.ok THEN Ok(<<h.value>> \o t.value) ELSE t :
                 t \in CtyMap_wrap_items(this, items, i + 1)}
        ELSE {h}
        : h \in CtyMap_wrap_value(this, items[i])}

\* A _wrap_value without the promotion of a string to a single-entry map.
CtyMap_wrap_value_no_promotion(this, value) ==
    LET value_type == Payload(this).value_type IN
    IF IsCtyType(value) THEN {Ok(value)}
    ELSE IF TypeName(value) = "list"
    THEN {IF r.ok THEN Ok(PyList(r.value)) ELSE r :
             r \in CtyMap_wrap_items(this, Payload(value), 1)}
    ELSE IF TypeName(value) = "dict"
    THEN IF TypeName(value_type) = "CtyMap"
         THEN LET nested_map == CtyMap_init(Payload(this).key_type,
                                            Payload(value_type).value_type,
                                            Payload(this).metadata,
                                            FieldDefault("default"),
                                            Payload(this).mutable)
              IN  IF nested_map.ok THEN CtyMap_validate(nested_map.value, value)
                  ELSE {nested_map}
         ELSE {Raise("ValidationError",
                     <<Part("Invalid type for nested dict. Expected", {TypeName(value_type)})>>)}
    ELSE IF IsBool(value) /\ TypeName(value_type) = "CtyBool" THEN {Ok(CtyBool(value))}
    ELSE IF IsIntOrFloat(value) /\ TypeName(value_type) = "CtyNumber" THEN {Ok(CtyNumber(value))}
    ELSE IF IsStr(value) /\ TypeName(value_type) = "CtyString" THEN {Ok(CtyString(value))}
    ELSE {Raise("ValidationError",
                <<Part("Invalid type for map value", {TypeName(value), TypeName(value_type)})>>)}

CtyMap_wrap_value(this, value) ==
    LET value_type == Payload(this).value_type IN
    IF IsCtyType(value) THEN {Ok(value)}
    ELSE IF TypeName(value) = "list"
    THEN {IF r.ok THEN Ok(PyList(r.value)) ELSE r :
             r \in CtyMap_wrap_items(this, Payload(value), 1)}
    ELSE IF TypeName(value) = "dict"
    THEN IF TypeName(value_type) = "CtyMap"
         THEN LET nested_map == CtyMap_init(Payload(this).key_type,
                                            Payload(value_type).value_type,
                                            Payload(this).metadata,
                                            FieldDefault("default"),
                                            Payload(this).mutable)
              IN  IF nested_map.ok THEN CtyMap_validate(nested_map.value, value)
                  ELSE {nested_map}
         ELSE {Raise("ValidationError",
                     <<Part("Invalid type for nested dict. Expected", {TypeName(value_type)})>>)}
    ELSE IF IsStr(value) /\ TypeName(value_type) = "CtyMap"
    THEN CtyMap_validate(value_type, PyDict([k \in {value} |-> value]))
    ELSE IF IsBool(value) /\ TypeName(value_type) = "CtyBool" THEN {Ok(CtyBool(value))}
    ELSE IF IsIntOrFloat(value) /\ TypeName(value_type) = "CtyNumber" THEN {Ok(CtyNumber(value))}
    ELSE IF IsStr(value) /\ TypeName(value_type) = "CtyString" THEN {Ok(CtyString(value))}
    ELSE {Raise("ValidationError",
                <<Part("Invalid type for map value", {TypeName(value), TypeName(value_type)})>>)}

\* CtyMap.validate, lines 59-71: one pass of the loop, for the entry at key k.
\* The outcome carries the pair <<stored key, stored value>>.
CtyMap_entry(this, k, v) ==
    UNION {
        IF ~validated_key.ok THEN {validated_key}
        ELSE {IF ~wrapped.ok THEN wrapped
              ELSE LET validated_value ==
                           IF TypeName(wrapped.value) = "list"
                           THEN LET items == CtyMap_unwrap_items(Payload(wrapped.value), 1)
                                IN  IF items.ok THEN Ok(PyList(items.value)) ELSE items
                           ELSE CtyMap_unwrap(wrapped.value)
                       key == CtyMap_unwrap(validated_key.value)
                   IN  IF ~validated_value.ok THEN validated_value
                       ELSE IF ~key.ok THEN key
                       ELSE IF ~Hashable(key.value)
                       THEN Raise("TypeError", <<Part("unhashable type", {TypeName(key.value)})>>)
                       ELSE Ok(<<key.value, validated_value.value>>)
              : wrapped \in CtyMap_wrap_value(this, v)}
        : validated_key \in Validate(Payload(this).key_type, k)}

\* CtyMap.validate, lines 53-73.  The loop stops at the first entry that
\* raises; entries whose stored keys collide overwrite one another.
CtyMap_validate(this, value) ==
    IF TypeName(value) # "dict"
    THEN {Raise("ValidationError", <<Part("Expected dict, got", {TypeName(value)})>>)}
    ELSE LET items == Payload(value)
             outcomes(k) == CtyMap_entry(this, k, items[k])
             failures == UNION {{r \in outcomes(k) : ~r.ok} : k \in DOMAIN items}
             passes == {e \in [DOMAIN items -> UNION {outcomes(k) : k \in DOMAIN items}] :
                           \A k \in DOMAIN items : e[k] \in outcomes(k) /\ e[k].ok}
             keys(e) == {e[k].value[1] : k \in DOMAIN items}
             dicts(e) == {validated \in [keys(e) -> {e[k].value[2] : k \in DOMAIN items}] :
                             \A key \in keys(e) : \E k \in DOMAIN items :
                                 e[k].value = <<key, validated[key]>>}
         IN  failures \cup
             {Ok(IF ~Truthy(Payload(this).mutable) THEN MappingProxy(validated)
                 ELSE PyDict(validated)) : validated \in UNION {dicts(e) : e \in passes}}

Validate(T, v) ==
    CASE TypeName(T) = "CtyBool" -> {CtyBool_validate(v)}
      [] TypeName(T) = "CtyMap" -> CtyMap_validate(T, v)
      [] TypeName(T) = "CtyNumber" -> {CtyNumber_validate(v)}
      [] TypeName(T) = "CtyString" -> {CtyString_validate(v)}
      [] TypeName(T) = "CtyList" -> CtyList_validate(T, v)
      [] TypeName(T) = "CtySet" -> CtySet_validate(T, v)
      [] TypeName(T) = "CtyTuple" -> CtyTuple_validate(T, v)
      [] TypeName(T) = "CtyDynamic" -> CtyDynamic_validate(v)
      [] TypeName(T) = "CtyObject" -> CtyObject_validate(T, v)

(***************************************************************************)
(* Raw values and descriptors the callers hand in                          *)
(***************************************************************************)
MaxLen == 2       \* longest list or tuple, largest set, of a raw value
MaxNumber == 2    \* largest number of a raw value

Scalars ==
    {PyNone, PyBool(TRUE), PyBool(FALSE), PyFloat(1), PyStr("a"), PyStr("b")}
    \cup {PyInt(n) : n \in 1..MaxNumber}

SeqsOver(S, n) == UNION {[1..m -> S] : m \in 0..n}

\* Python sets hold no two equal members (1, 1.0 and True are one member).
PySetsOver(S, n) ==
    {X \in SUBSET S : Cardinality(X) <= n /\ \A x, y \in X : x # y => ~PyEq(x, y)}

DictKeys == {PyStr("name"), PyStr("count"), PyStr("bogus")}
DictValues == {PyNone, PyInt(1), PyStr("a")}
DictsOver(K, V) == UNION {[D -> V] : D \in SUBSET K}

\* Collections that hold a collection: a set, a tuple or a list inside a list,
\* and a set as (or inside) the value of a mapping.
InnerValues == {PySet({}), PySet({PyInt(1)}), PyTuple(<<>>), PyList(<<PyInt(1)>>)}
NestedValues ==
    {PyList(<<x>>) : x \in InnerValues}
    \cup {PyList(<<PyInt(1), x>>) : x \in InnerValues}
    \cup {PyDict([k \in {PyStr("name")} |-> x]) : x \in InnerValues}
    \cup {PyDict([k \in {PyStr("name")} |-> PyList(<<x>>)]) : x \in InnerValues}

RawValues ==
    Scalars
    \cup NestedValues
    \cup {PyList(q) : q \in SeqsOver(Scalars, MaxLen)}
    \cup {PyTuple(q) : q \in SeqsOver(Scalars, MaxLen)}
    \cup {PySet(X) : X \in PySetsOver(Scalars, MaxLen)}
    \cup {PyDict(d) : d \in DictsOver(DictKeys, DictValues)}

\* The object of the specification's example: name is required, count optional.
ExampleObject ==
    CtyObject([n \in {"name", "count"} |-> IF n = "name" THEN StringType ELSE NumberType],
              {"count"}, {}, {}, {})

\* Objects over the attributes name: String and count: Number, each of them
\* required, optional, computed or both.
ExampleObjects ==
    {CtyObject([n \in names |-> IF n = "name" THEN StringType ELSE NumberType],
               optional, computed, {}, {}) :
        <<names, optional, computed>> \in
            {t \in (SUBSET {"name", "count"}) \X (SUBSET {"name", "count"}) \X (SUBSET {"name", "count"}) :
                t[2] \subseteq t[1] /\ t[3] \subseteq t[1]}}

\* CtyMap(value_type=...) with, or without, the keyword mutable.
MapOf(value_type) ==
    CtyMap_init(PyNone, value_type, FieldDefault("metadata"), FieldDefault("default"),
                FieldDefault("mutable")).value
ImmutableMapOf(value_type) ==
    CtyMap_init(PyNone, value_type, FieldDefault("metadata"), FieldDefault("default"),
                PyBool(FALSE)).value

Descriptors ==
    {BoolType, NumberType, StringType, CtyDynamic,
     MapOf(NumberType), MapOf(StringType), MapOf(MapOf(StringType)), MapOf(CtyDynamic),
     ImmutableMapOf(StringType),
     CtyList(NumberType), CtyList(StringType), CtyList(CtyDynamic), CtyList(CtyList(NumberType)),
     CtySet(NumberType, {}), CtySet(StringType, {}), CtySet(BoolType, {}),
     CtySet(CtyDynamic, {}), CtySet(CtyList(NumberType), {}),
     CtyTuple(<<PyClass("str"), PyClass("int")>>), CtyTuple(<<>>),
     CtyTuple(<<StringType, NumberType>>), CtyTuple(<<CtyDynamic>>),
     CtyObject([n \in {"name"} |-> CtyDynamic], {}, {"name"}, {}, {})}
    \cup ExampleObjects

(***************************************************************************)
(* SpecValidate: a caller validates a raw value against a descriptor, and  *)
(* then validates what came back against the same descriptor.              *)
(***************************************************************************)
InitValidate ==
    /\ pc = "start"
    /\ self \in Descriptors
    /\ arg \in RawValues
    /\ ret = NotCalled
    /\ again = NotCalled
    /\ other = PyNone
    /\ objects = <<>>
    /\ sets = <<>>

\* ret = self.validate(arg)
CallValidate ==
    /\ pc = "start"
    /\ ret' \in Validate(self, arg)
    /\ pc' = "validated"
    /\ UNCHANGED <<self, arg, again, other, objects, sets>>

\* again = self.validate(ret)
CallValidateAgain ==
    /\ pc = "validated"
    /\ ret.ok
    /\ again' \in Validate(self, ret.value)
    /\ pc' = "revalidated"
    /\ UNCHANGED <<self, arg, ret, other, objects, sets>>

NextValidate == CallValidate \/ CallValidateAgain

SpecValidate == InitValidate /\ [][NextValidate]_vars

(***************************************************************************)
(* Properties of validate                                                  *)
(***************************************************************************)
IsPrimitive(T) == TypeName(T) \in {"CtyBool", "CtyNumber", "CtyString"}

\* The native kind a primitive descriptor stands for: boolean for Bool,
\* integer-or-floating for Number, text for String.
NativeKindMatches(T, v) ==
    CASE TypeName(T) = "CtyBool" -> TypeName(v) = "bool"
      [] TypeName(T) = "CtyNumber" -> TypeName(v) \in {"int", "float"}
      [] TypeName(T) = "CtyString" -> TypeName(v) = "str"

\* C1: a primitive descriptor's validate succeeds if and only if the raw value's
\* native kind exactly matches the descriptor; any other kind (a boolean offered
\* to Number included) is rejected with a kind-mismatch error, never coerced.
C1_ExactNativeKind ==
    (pc = "validated" /\ IsPrimitive(self)) =>
        /\ ret.ok <=> NativeKindMatches(self, arg)
        /\ ~ret.ok => ret.err.cls = "ValidationError"

\* C2: validate is idempotent: validating the value validate returned succeeds
\* and gives a value equal to it, for every descriptor and accepted raw value.
C2_ValidateIdempotent ==
    pc = "revalidated" => again.ok /\ PyEq(again.value, ret.value)

\* T.validate(v) can succeed.
Accepts(T, v) == \E r \in Validate(T, v) : r.ok

\* The members of a raw collection.
MembersOf(v) ==
    IF TypeName(v) \in {"list", "tuple"} THEN {Payload(v)[i] : i \in DOMAIN Payload(v)}
    ELSE Payload(v)

\* The native value a member of a validated set stands for.
MemberValue(m) ==
    IF TypeName(m) \in {"CtyBool", "CtyNumber", "CtyString"} THEN Payload(m) ELSE m

\* C11: Set.validate deduplicates by value equality: for an input collection of
\* valid elements the validated set holds exactly one member per distinct input
\* value, for every element type; a collection containing a nested set fails.
C11_SetDeduplicates ==
    (pc = "validated" /\ TypeName(self) = "CtySet" /\ TypeName(arg) \in {"list", "tuple", "set"}) =>
        LET items == MembersOf(arg)
            element_type == Payload(self).element_type
        IN  /\ (\E x \in items : TypeName(x) = "set") => ~ret.ok
            /\ (\A x \in items : TypeName(x) # "set" /\ Accepts(element_type, x)) =>
                  /\ ret.ok
                  /\ \A x \in items :
                        Cardinality({m \in Payload(ret.value).value : PyEq(MemberValue(m), x)}) = 1
                  /\ \A m \in Payload(ret.value).value :
                        \E x \in items : PyEq(MemberValue(m), x)

\* C14: List.validate aggregates failures: when several elements of the raw
\* sequence fail element_type validation, the one error raised reports every
\* failing index, not only the first.
C14_AllFailingIndicesNamed ==
    (pc = "validated" /\ TypeName(self) = "CtyList" /\ TypeName(arg) \in {"list", "tuple"}) =>
        LET failing == {i \in DOMAIN Payload(arg) : ~Accepts(Payload(self), Payload(arg)[i])}
        IN  failing # {} =>
               ~ret.ok /\ {ToString(i - 1) : i \in failing} \subseteq NamesIn(ret)

\* C16: for every element type, List.validate(null) returns the empty sequence
\* and does not fail; validate of a non-null value that is no sequence fails.
C16_NullIsEmptyList ==
    (pc = "validated" /\ TypeName(self) = "CtyList") =>
        /\ arg = PyNone => ret = Ok(PyList(<<>>))
        /\ (arg # PyNone /\ TypeName(arg) \notin {"list", "tuple"}) => ~ret.ok

\* C16 witness: a List of Lists has validated null and returned the empty sequence.
C16_Witness ==
    /\ pc = "validated" /\ self = CtyList(CtyList(NumberType))
    /\ arg = PyNone /\ ret = Ok(PyList(<<>>))

\* C17: Tuple.validate fails unless the raw value is a sequence of exactly the
\* Tuple's arity, and otherwise validates each slot value with the validate of
\* the slot's own descriptor: it succeeds iff every slot's descriptor accepts
\* the value at its position.
C17_SlotsValidated ==
    (/\ pc = "validated" /\ TypeName(self) = "CtyTuple"
     /\ \A i \in DOMAIN Payload(self) : IsCtyType(Payload(self)[i])) =>
        (ret.ok <=>
            /\ TypeName(arg) = "tuple"
            /\ Len(Payload(arg)) = Len(Payload(self))
            /\ \A i \in DOMAIN Payload(self) : Accepts(Payload(self)[i], Payload(arg)[i]))

\* The shapes Dynamic is to accept: null, booleans, numbers, strings, lists of
\* such shapes and maps whose values are such shapes.
RECURSIVE DynamicCompatible(_)
DynamicCompatible(v) ==
    CASE TypeName(v) \in {"NoneType", "bool", "int", "float", "str"} -> TRUE
      [] TypeName(v) = "list" -> \A i \in DOMAIN Payload(v) : DynamicCompatible(Payload(v)[i])
      [] TypeName(v) = "dict" -> \A k \in DOMAIN Payload(v) : DynamicCompatible(Payload(v)[k])
      [] OTHER -> FALSE

\* C19: Dynamic.validate succeeds exactly for null, booleans, numbers, strings,
\* lists whose elements are all Dynamic-compatible and maps whose values are all
\* Dynamic-compatible, recursively; a list or map holding an unsupported value
\* at any depth fails.
C19_DynamicRecursive ==
    (pc = "validated" /\ self = CtyDynamic) => (ret.ok <=> DynamicCompatible(arg))

IsObjectCall == pc = "validated" /\ TypeName(self) = "CtyObject" /\ TypeName(arg) = "dict"

\* The keys of the raw mapping that are no attribute of the object.
UnknownKeys == {Payload(k) : k \in {j \in DOMAIN Payload(arg) : Payload(j) \notin AttributeNames(self)}}
\* The required attributes the raw mapping lacks.
MissingRequired == {name \in required_attributes(self) : PyStr(name) \notin DOMAIN Payload(arg)}

\* C4: the object schema is closed: validating a mapping with a key that is no
\* attribute fails with an error naming the unknown keys, also when the mapping
\* lacks required attributes or carries invalid values at the same time.
C4_UnknownKeysNamed ==
    (IsObjectCall /\ UnknownKeys # {}) =>
        ~ret.ok /\ UnknownKeys \subseteq NamesIn(ret)

\* C5: validating a mapping that lacks required attributes fails with one error
\* that names each of the missing required attributes.
C5_MissingRequiredNamed ==
    (IsObjectCall /\ MissingRequired # {}) =>
        ~ret.ok /\ MissingRequired \subseteq NamesIn(ret)

\* C6: when an object's validate succeeds on a mapping, the result has exactly
\* the keys of attribute_types: an attribute present in the raw mapping maps to
\* its validated value, an absent one is optional or computed and maps to an
\* explicit null.
C6_AbsentOptionalIsNull ==
    (IsObjectCall /\ ret.ok) =>
        /\ TypeName(ret.value) = "dict"
        /\ DOMAIN Payload(ret.value) = {PyStr(name) : name \in AttributeNames(self)}
        /\ \A name \in AttributeNames(self) :
              IF PyStr(name) \in DOMAIN Payload(arg)
              THEN Ok(Payload(ret.value)[PyStr(name)]) \in
                       Validate(Payload(self).attribute_types[name], Payload(arg)[PyStr(name)])
              ELSE /\ name \in Payload(self).optional_attributes \cup Payload(self).computed_attributes
                   /\ Payload(ret.value)[PyStr(name)] = PyNone

\* C6 witness: the example object validated a mapping without its optional
\* count, and count is in the result as null.
C6_Witness ==
    /\ IsObjectCall /\ ret.ok
    /\ self = ExampleObject
    /\ DOMAIN Payload(arg) = {PyStr("name")}
    /\ Payload(ret.value)[PyStr("count")] = PyNone
    /\ Payload(ret.value)[PyStr("name")] = CtyString(PyStr("a"))

(***************************************************************************)
(* equal                                                                   *)
(***************************************************************************)
\* A comparison that leaves the sensitive classification out.
CtyObject_equal_ignoring_sensitive(this, that) ==
    /\ TypeName(that) = "CtyObject"
    /\ AttributeNames(this) = AttributeNames(that)
    /\ \A name \in AttributeNames(this) :
          Equal(Payload(this).attribute_types[name], Payload(that).attribute_types[name])
    /\ Payload(this).optional_attributes = Payload(that).optional_attributes
    /\ Payload(this).computed_attributes = Payload(that).computed_attributes
    /\ Payload(this).block_attributes = Payload(that).block_attributes

CtyObject_equal(this, that) ==
    /\ TypeName(that) = "CtyObject"
    /\ AttributeNames(this) = AttributeNames(that)
    /\ \A name \in AttributeNames(this) :
          Equal(Payload(this).attribute_types[name], Payload(that).attribute_types[name])
    /\ Payload(this).optional_attributes = Payload(that).optional_attributes
    /\ Payload(this).computed_attributes = Payload(that).computed_attributes
    /\ Payload(this).block_attributes = Payload(that).block_attributes
    /\ Payload(this).sensitive_attributes = Payload(that).sensitive_attributes

Equal(a, b) ==
    CASE TypeName(a) \in {"CtyBool", "CtyNumber", "CtyString", "CtyDynamic"} ->
            TypeName(b) = TypeName(a)
      [] TypeName(a) = "CtyList" ->
            TypeName(b) = "CtyList" /\ Equal(Payload(a), Payload(b))
      [] TypeName(a) = "CtySet" ->
            TypeName(b) = "CtySet" /\ Equal(Payload(a).element_type, Payload(b).element_type)
      [] TypeName(a) = "CtyTuple" ->
            TypeName(b) = "CtyTuple" /\ PyEq(PyTuple(Payload(a)), PyTuple(Payload(b)))
      [] TypeName(a) = "CtyMap" ->
            /\ TypeName(b) = "CtyMap"
            /\ Equal(Payload(a).key_type, Payload(b).key_type)
            /\ Equal(Payload(a).value_type, Payload(b).value_type)
            /\ PyEq(Payload(a).metadata, Payload(b).metadata)
            /\ PyEq(Payload(a).default, Payload(b).default)
            /\ PyEq(Payload(a).mutable, Payload(b).mutable)
      [] TypeName(a) = "CtyObject" -> CtyObject_equal(a, b)

(***************************************************************************)
(* CtyObject.usable_as                                                     *)
(***************************************************************************)
\* A check of the required attributes in the wrong direction.
CtyObject_usable_as_reversed(this, that) ==
    /\ TypeName(that) = "CtyObject"
    /\ AttributeNames(that) \ AttributeNames(this) = {}
    /\ \A name \in AttributeNames(that) :
          Equal(Payload(this).attribute_types[name], Payload(that).attribute_types[name])
    /\ required_attributes(this) \subseteq required_attributes(that)

CtyObject_usable_as(this, that) ==
    /\ TypeName(that) = "CtyObject"
    /\ AttributeNames(that) \ AttributeNames(this) = {}
    /\ \A name \in AttributeNames(that) :
          Equal(Payload(this).attribute_types[name], Payload(that).attribute_types[name])
    /\ required_attributes(that) \subseteq required_attributes(this)

(***************************************************************************)
(* SpecCompare: a caller compares two descriptors with equal and usable_as *)
(***************************************************************************)
\* Objects over the attributes x (String, Number, or a List of either) and
\* y (String); x can be a block and y can be sensitive.
CompareTypes == {StringType, NumberType, CtyList(StringType), CtyList(NumberType)}
CompareObjects ==
    {CtyObject([n \in t[1] |-> IF n = "x" THEN t[2] ELSE StringType], t[3], t[4], t[5], t[6]) :
        t \in {u \in (SUBSET {"x", "y"}) \X CompareTypes \X (SUBSET {"x", "y"})
                     \X (SUBSET {"x", "y"}) \X (SUBSET {"x"}) \X (SUBSET {"y"}) :
                  /\ u[3] \subseteq u[1] /\ u[4] \subseteq u[1]
                  /\ u[5] \subseteq u[1] /\ u[6] \subseteq u[1]
                  /\ ("x" \notin u[1] => u[2] = StringType)}}

InitCompare ==
    /\ pc = "start"
    /\ self \in CompareObjects
    /\ other \in CompareObjects \cup {StringType, CtyDynamic}
    /\ arg = PyNone
    /\ ret = NotCalled
    /\ again = NotCalled
    /\ objects = <<>>
    /\ sets = <<>>

\* ret = self.equal(other)
CallEqual ==
    /\ pc = "start"
    /\ ret' = Ok(PyBool(Equal(self, other)))
    /\ pc' = "equal"
    /\ UNCHANGED <<self, arg, again, other, objects, sets>>

\* ret = self.usable_as(other)
CallUsableAs ==
    /\ pc = "start"
    /\ ret' = Ok(PyBool(CtyObject_usable_as(self, other)))
    /\ pc' = "usable_as"
    /\ UNCHANGED <<self, arg, again, other, objects, sets>>

NextCompare == CallEqual \/ CallUsableAs

SpecCompare == InitCompare /\ [][NextCompare]_vars

C9_Equal ==
    (pc = "equal" /\ TypeName(other) = "CtyObject") =>
        /\ ret.value = PyBool(
              /\ AttributeNames(self) = AttributeNames(other)
              /\ \A name \in AttributeNames(self) \cap AttributeNames(other) :
                    Payload(self).attribute_types[name] = Payload(other).attribute_types[name]
              /\ Payload(self).optional_attributes = Payload(other).optional_attributes
              /\ Payload(self).computed_attributes = Payload(other).computed_attributes
              /\ Payload(self).block_attributes = Payload(other).block_attributes
              /\ Payload(self).sensitive_attributes = Payload(other).sensitive_attributes)
        /\ (self = other => ret.value = PyBool(TRUE))
        /\ ret.value = PyBool(Equal(other, self))

\* C9 witness: equal has returned false for two objects that differ only in
\* their sensitive set.
C9_Witness ==
    /\ pc = "equal" /\ ret.value = PyBool(FALSE) /\ TypeName(other) = "CtyObject"
    /\ Payload(self).attribute_types = Payload(other).attribute_types
    /\ Payload(self).optional_attributes = Payload(other).optional_attributes
    /\ Payload(self).computed_attributes = Payload(other).computed_attributes
    /\ Payload(self).block_attributes = Payload(other).block_attributes
    /\ Payload(self).sensitive_attributes # Payload(other).sensitive_attributes

(***************************************************************************)
(* CtyObject construction and builders.  Objects live in `objects` and are *)
(* known by their index; a call takes the instances that exist and gives   *)
(* the instances that exist afterwards and what it returned or raised.     *)
(***************************************************************************)
Ref(id) == <<"ref", id>>
Effect(instances, outcome) == [instances |-> instances, ret |-> outcome]

UnknownNames(text, unknown) ==
    Raise("AttributeValidationError", <<Part(text, unknown)>>)

\* A constructor that forgets to check the sensitive names.
CtyObject_init_no_sensitive_check(attribute_types, optional, computed, block, sensitive) ==
    LET names == DOMAIN attribute_types
        invalid_types == {name \in names : ~IsCtyType(attribute_types[name])}
    IN
    IF invalid_types # {}
    THEN Raise("AttributeValidationError", <<Part("Invalid types for attributes:", invalid_types)>>)
    ELSE IF optional \ names # {}
    THEN UnknownNames("Unknown optional attributes:", optional \ names)
    ELSE IF computed \ names # {}
    THEN UnknownNames("Unknown computed attributes:", computed \ names)
    ELSE IF block \ names # {}
    THEN UnknownNames("Unknown block attributes:", block \ names)
    ELSE Ok(CtyObject(attribute_types, optional, computed, block, sensitive))

\* CtyObject(...): the attrs constructor followed by __attrs_post_init__.
CtyObject_init(attribute_types, optional, computed, block, sensitive) ==
    LET names == DOMAIN attribute_types
        invalid_types == {name \in names : ~IsCtyType(attribute_types[name])}
    IN
    IF invalid_types # {}
    THEN Raise("AttributeValidationError", <<Part("Invalid types for attributes:", invalid_types)>>)
    ELSE IF optional \ names # {}
    THEN UnknownNames("Unknown optional attributes:", optional \ names)
    ELSE IF computed \ names # {}
    THEN UnknownNames("Unknown computed attributes:", computed \ names)
    ELSE IF block \ names # {}
    THEN UnknownNames("Unknown block attributes:", block \ names)
    ELSE IF sensitive \ names # {}
    THEN UnknownNames("Unknown sensitive attributes:", sensitive \ names)
    ELSE Ok(CtyObject(attribute_types, optional, computed, block, sensitive))

\* new_obj = CtyObject(...); return new_obj
NewObject(instances, made) ==
    IF made.ok
    THEN Effect(Append(instances, made.value), Ok(Ref(Len(instances) + 1)))
    ELSE Effect(instances, made)

SchemaError(text, names) == Raise("SchemaValidationError", <<Part(text, names)>>)

with_optional_attributes(instances, this, names) ==
    LET o == Payload(instances[this]) IN
    IF names \ DOMAIN o.attribute_types # {}
    THEN Effect(instances, SchemaError("Unknown attributes:", names \ DOMAIN o.attribute_types))
    ELSE NewObject(instances,
            CtyObject_init(o.attribute_types, o.optional_attributes \cup names,
                           o.computed_attributes, o.block_attributes, o.sensitive_attributes))

with_required_attributes(instances, this, names) ==
    LET o == Payload(instances[this]) IN
    IF names \ DOMAIN o.attribute_types # {}
    THEN Effect(instances, SchemaError("Unknown attributes:", names \ DOMAIN o.attribute_types))
    ELSE IF names \ o.optional_attributes # {}
    THEN Effect(instances, SchemaError("Attributes already required:", names \ o.optional_attributes))
    ELSE NewObject(instances,
            CtyObject_init(o.attribute_types, o.optional_attributes \ names,
                           o.computed_attributes, o.block_attributes, o.sensitive_attributes))

with_computed_attributes(instances, this, names) ==
    LET o == Payload(instances[this]) IN
    IF names \ DOMAIN o.attribute_types # {}
    THEN Effect(instances, SchemaError("Unknown attributes:", names \ DOMAIN o.attribute_types))
    ELSE NewObject(instances,
            CtyObject_init(o.attribute_types, o.optional_attributes,
                           o.computed_attributes \cup names, o.block_attributes, o.sensitive_attributes))

with_block_attributes(instances, this, names) ==
    LET o == Payload(instances[this]) IN
    IF names \ DOMAIN o.attribute_types # {}
    THEN Effect(instances, SchemaError("Unknown attributes:", names \ DOMAIN o.attribute_types))
    ELSE NewObject(instances,
            CtyObject_init(o.attribute_types, o.optional_attributes,
                           o.computed_attributes, o.block_attributes \cup names, o.sensitive_attributes))

\* A builder that updates the receiver's set in place and returns the receiver.
with_sensitive_attributes_in_place(instances, this, names) ==
    LET o == Payload(instances[this]) IN
    IF names \ DOMAIN o.attribute_types # {}
    THEN Effect(instances, SchemaError("Unknown attributes:", names \ DOMAIN o.attribute_types))
    ELSE Effect([instances EXCEPT ![this] =
                    CtyObject(o.attribute_types, o.optional_attributes, o.computed_attributes,
                              o.block_attributes, o.sensitive_attributes \cup names)],
                Ok(Ref(this)))

with_sensitive_attributes(instances, this, names) ==
    LET o == Payload(instances[this]) IN
    IF names \ DOMAIN o.attribute_types # {}
    THEN Effect(instances, SchemaError("Unknown attributes:", names \ DOMAIN o.attribute_types))
    ELSE NewObject(instances,
            CtyObject_init(o.attribute_types, o.optional_attributes,
                           o.computed_attributes, o.block_attributes, o.sensitive_attributes \cup names))

\* flags is the set of the keyword flags given as True, among optional, computed,
\* block and sensitive.
with_attribute(instances, this, name, type_, flags) ==
    LET o == Payload(instances[this])
        new_attrs == [n \in DOMAIN o.attribute_types \cup {name} |->
                         IF n = name THEN type_ ELSE o.attribute_types[n]]
        added(flag) == IF flag \in flags THEN {name} ELSE {}
    IN
    IF name \in DOMAIN o.attribute_types
    THEN Effect(instances, SchemaError("Attribute already exists:", {name}))
    ELSE NewObject(instances,
            CtyObject_init(new_attrs,
                           o.optional_attributes \cup added("optional"),
                           o.computed_attributes \cup added("computed"),
                           o.block_attributes \cup added("block"),
                           o.sensitive_attributes \cup added("sensitive")))

(***************************************************************************)
(* SpecObject: a schema author constructs an Object and derives further    *)
(* Objects from it with the builders, keeping the returned Object as the   *)
(* receiver of the next call.                                              *)
(***************************************************************************)
ObjectNames == {"x", "y"}
AttributeTypes == {StringType, NumberType}
AttributeTypeMaps == UNION {[names -> AttributeTypes] : names \in SUBSET ObjectNames}
Flags == {"optional", "computed", "block", "sensitive"}
NoCall == [op |-> "none"]

InitObject ==
    /\ pc = "start"
    /\ objects = <<>>
    /\ self = 0
    /\ arg = NoCall
    /\ ret = NotCalled
    /\ again = NotCalled
    /\ other = PyNone
    /\ sets = <<>>

\* CtyObject(attribute_types=..., optional_attributes=..., ...)
Construct ==
    /\ pc = "start"
    /\ \E attribute_types \in AttributeTypeMaps, optional \in SUBSET ObjectNames,
          computed \in SUBSET ObjectNames, block \in SUBSET ObjectNames,
          sensitive \in SUBSET ObjectNames :
          LET effect == NewObject(objects,
                            CtyObject_init(attribute_types, optional, computed, block, sensitive))
          IN /\ objects' = effect.instances
             /\ ret' = effect.ret
             /\ arg' = [op |-> "CtyObject", attribute_types |-> attribute_types,
                        optional |-> optional, computed |-> computed,
                        block |-> block, sensitive |-> sensitive]
    /\ pc' = "constructed"
    /\ UNCHANGED <<self, again, other, sets>>

\* The caller holds one Object and is about to call a builder on it.
CanBuild == pc \in {"constructed", "kept"} /\ Len(objects) = 1

Built(op, names, effect) ==
    /\ objects' = effect.instances
    /\ ret' = effect.ret
    /\ arg' = [op |-> op, names |-> names]
    /\ self' = 1
    /\ pc' = "built"
    /\ UNCHANGED <<again, other, sets>>

CallWithOptional ==
    CanBuild /\ \E names \in SUBSET ObjectNames :
        Built("with_optional_attributes", names, with_optional_attributes(objects, 1, names))

CallWithRequired ==
    CanBuild /\ \E names \in SUBSET ObjectNames :
        Built("with_required_attributes", names, with_required_attributes(objects, 1, names))

CallWithComputed ==
    CanBuild /\ \E names \in SUBSET ObjectNames :
        Built("with_computed_attributes", names, with_computed_attributes(objects, 1, names))

CallWithBlock ==
    CanBuild /\ \E names \in SUBSET ObjectNames :
        Built("with_block_attributes", names, with_block_attributes(objects, 1, names))

CallWithSensitive ==
    CanBuild /\ \E names \in SUBSET ObjectNames :
        Built("with_sensitive_attributes", names, with_sensitive_attributes(objects, 1, names))

CallWithAttribute ==
    /\ CanBuild
    /\ \E name \in ObjectNames, type_ \in AttributeTypes, flags \in SUBSET Flags :
          LET effect == with_attribute(objects, 1, name, type_, flags)
          IN /\ objects' = effect.instances
             /\ ret' = effect.ret
             /\ arg' = [op |-> "with_attribute", names |-> {name}, type_ |-> type_, flags |-> flags]
    /\ self' = 1
    /\ pc' = "built"
    /\ UNCHANGED <<again, other, sets>>

\* obj = obj.with_...(): the caller keeps the returned Object; the receiver is
\* no longer referenced.
KeepReturned ==
    /\ pc = "built"
    /\ ret.ok
    /\ objects' = <<objects[Payload(ret.value)]>>
    /\ pc' = "kept"
    /\ self' = 0
    /\ arg' = NoCall
    /\ ret' = NotCalled
    /\ UNCHANGED <<again, other, sets>>

NextObject ==
    \/ Construct
    \/ CallWithOptional \/ CallWithRequired \/ CallWithComputed
    \/ CallWithBlock \/ CallWithSensitive \/ CallWithAttribute
    \/ KeepReturned

SpecObject == InitObject /\ [][NextObject]_vars

ClassificationsWithin(o) ==
    /\ Payload(o).optional_attributes \subseteq AttributeNames(o)
    /\ Payload(o).computed_attributes \subseteq AttributeNames(o)
    /\ Payload(o).block_attributes \subseteq AttributeNames(o)
    /\ Payload(o).sensitive_attributes \subseteq AttributeNames(o)

\* C7: every Object that exists, built by the constructor or by builder calls,
\* has optional, computed, block and sensitive each a subset of its attribute
\* names; constructing an Object with a name in one of the four sets that is no
\* attribute fails at construction, and no Object comes to exist.
C7_ClassificationsAreAttributes ==
    /\ \A i \in DOMAIN objects : ClassificationsWithin(objects[i])
    /\ ( /\ pc = "constructed"
         /\ ~(arg.optional \cup arg.computed \cup arg.block \cup arg.sensitive
                 \subseteq DOMAIN arg.attribute_types) )
       => ~ret.ok /\ objects = <<>>

\* C7 witness: a builder has returned an Object in which each of the four sets
\* names an attribute.
C7_Witness ==
    /\ pc = "built" /\ ret.ok
    /\ LET o == Payload(objects[Payload(ret.value)]) IN
          /\ o.optional_attributes # {} /\ o.computed_attributes # {}
          /\ o.block_attributes # {} /\ o.sensitive_attributes = {"x", "y"}

\* What a successful builder call returns, given the receiver and the call.
ExpectedObject(o, call) ==
    CASE call.op = "with_optional_attributes" ->
            CtyObject(o.attribute_types, o.optional_attributes \cup call.names,
                      o.computed_attributes, o.block_attributes, o.sensitive_attributes)
      [] call.op = "with_required_attributes" ->
            CtyObject(o.attribute_types, o.optional_attributes \ call.names,
                      o.computed_attributes, o.block_attributes, o.sensitive_attributes)
      [] call.op = "with_computed_attributes" ->
            CtyObject(o.attribute_types, o.optional_attributes,
                      o.computed_attributes \cup call.names, o.block_attributes, o.sensitive_attributes)
      [] call.op = "with_block_attributes" ->
            CtyObject(o.attribute_types, o.optional_attributes,
                      o.computed_attributes, o.block_attributes \cup call.names, o.sensitive_attributes)
      [] call.op = "with_sensitive_attributes" ->
            CtyObject(o.attribute_types, o.optional_attributes,
                      o.computed_attributes, o.block_attributes, o.sensitive_attributes \cup call.names)
      [] call.op = "with_attribute" ->
            CtyObject([n \in DOMAIN o.attribute_types \cup call.names |->
                          IF n \in call.names THEN call.type_ ELSE o.attribute_types[n]],
                      o.optional_attributes \cup (IF "optional" \in call.flags THEN call.names ELSE {}),
                      o.computed_attributes \cup (IF "computed" \in call.flags THEN call.names ELSE {}),
                      o.block_attributes \cup (IF "block" \in call.flags THEN call.names ELSE {}),
                      o.sensitive_attributes \cup (IF "sensitive" \in call.flags THEN call.names ELSE {}))

\* The call names an attribute the receiver lacks (for with_attribute: has).
BadName(o, call) ==
    IF call.op = "with_attribute"
    THEN call.names \subseteq DOMAIN o.attribute_types
    ELSE ~(call.names \subseteq DOMAIN o.attribute_types)

\* C8: the builders are pure: a builder call, succeeding or failing, leaves every
\* field of the receiver as it was; a successful call returns a new Object that
\* differs from the receiver only in the requested change; a call with a name
\* that is no attribute (for with_attribute, one that is already an attribute)
\* fails with a schema error and returns nothing.
C8_BuildersPure ==
    [][pc' = "built" =>
          /\ \A i \in DOMAIN objects : i \in DOMAIN objects' /\ objects'[i] = objects[i]
          /\ ret'.ok =>
                /\ Len(objects') = Len(objects) + 1
                /\ ret'.value = Ref(Len(objects'))
                /\ objects'[Len(objects')] = ExpectedObject(Payload(objects[self']), arg')
          /\ BadName(Payload(objects[self']), arg') =>
                /\ ~ret'.ok
                /\ ret'.err.cls = "SchemaValidationError"
                /\ objects' = objects
    ]_vars

\* C8 witness: with_sensitive_attributes has returned a new Object with a larger
\* sensitive set, and the receiver still has its own.
C8_Witness ==
    /\ pc = "built" /\ ret.ok /\ arg.op = "with_sensitive_attributes"
    /\ Len(objects) = 2 /\ ret.value = Ref(2)
    /\ Payload(objects[1]).sensitive_attributes = {}
    /\ Payload(objects[2]).sensitive_attributes = {"x"}

\* C28: the required set tracks the builders: required_attributes() is the
\* attribute names minus optional minus computed; with_required_attributes of
\* optional names returns an Object that requires them, also when a name is
\* computed as well as optional; with_optional_attributes and
\* with_computed_attributes return an Object that does not require the names;
\* with_required_attributes of a name that is not optional fails.
C28_RequiredTracksBuilders ==
    /\ \A i \in DOMAIN objects :
          required_attributes(objects[i]) =
              (AttributeNames(objects[i]) \ Payload(objects[i]).optional_attributes)
                  \ Payload(objects[i]).computed_attributes
    /\ pc = "built" =>
          LET o == Payload(objects[1])
              returned == objects[Payload(ret.value)]
          IN  /\ (arg.op = "with_required_attributes" /\ arg.names \subseteq o.optional_attributes) =>
                    ret.ok /\ arg.names \subseteq required_attributes(returned)
              /\ (arg.op \in {"with_optional_attributes", "with_computed_attributes"} /\ ret.ok) =>
                    arg.names \cap required_attributes(returned) = {}
              /\ (arg.op = "with_required_attributes" /\ ~(arg.names \subseteq o.optional_attributes)) =>
                    ~ret.ok

(***************************************************************************)
(* CtySet updates.  CtySet instances live in `sets` and are known by their *)
(* index; the value of an instance is a Python set, which add changes in   *)
(* place.                                                                  *)
(***************************************************************************)
\* evolve(self, value=...): a new instance
NewSet(instances, made) ==
    IF made.ok
    THEN Effect(Append(instances, made.value), Ok(Ref(Len(instances) + 1)))
    ELSE Effect(instances, made)

\* self.validate(value), as a call on an instance: the effects it can have
CtySet_validate_call(instances, this, value) ==
    {NewSet(instances, made) : made \in CtySet_validate(instances[this], value)}

\* self.value | {element} cannot be built for an unhashable element (TypeError,
\* which add does not catch); a ValidationError of validate is raised again.
CtySet_add(instances, this, element) ==
    IF ~Hashable(element)
    THEN {Effect(instances, Raise("TypeError", <<Part("unhashable type", {TypeName(element)})>>))}
    ELSE {IF checked.ok
          THEN Effect([instances EXCEPT ![this] =
                          CtySet(Payload(@).element_type, PySetAdd(Payload(@).value, element))],
                      Ok(PyNone))
          ELSE Effect(instances, Wrap("ValidationError", "Failed to add element:", {}, checked)) :
             checked \in CtySet_validate(instances[this],
                                         PySet(PySetAdd(Payload(instances[this]).value, element)))}

CtySet_remove(instances, this, item) ==
    LET me == Payload(instances[this]) IN
    {IF validated_item.ok
     THEN NewSet(instances,
              Ok(CtySet(me.element_type, {x \in me.value : PyNe(x, validated_item.value)})))
     ELSE Effect(instances, Wrap("ValidationError", "Failed to remove item:", {}, validated_item)) :
        validated_item \in Validate(me.element_type, item)}

(***************************************************************************)
(* SpecSet: a caller constructs a CtySet and calls validate, add and       *)
(* remove on it, keeping a returned Set as the receiver of the next call.  *)
(***************************************************************************)
\* The elements the caller offers: True and 1 are equal in Python, "a" is no number.
SetElements == {PyBool(TRUE), PyBool(FALSE), PyStr("a")} \cup {PyInt(n) : n \in 1..MaxNumber}
SetInputs == {PyList(q) : q \in SeqsOver(SetElements, MaxLen)}

InitSet ==
    /\ pc = "start"
    /\ sets \in {<<CtySet(T, {})>> : T \in {BoolType, NumberType, StringType}}
    /\ self = 0
    /\ arg = NoCall
    /\ ret = NotCalled
    /\ again = NotCalled
    /\ other = PyNone
    /\ objects = <<>>

\* The caller holds one Set.
CanCallSet == Len(sets) = 1

CalledSet(op, value, effect, at) ==
    /\ sets' = effect.instances
    /\ ret' = effect.ret
    /\ arg' = [op |-> op, value |-> value]
    /\ self' = 1
    /\ pc' = at
    /\ UNCHANGED <<again, other, objects>>

CallSetValidate ==
    CanCallSet /\ \E value \in SetInputs : \E effect \in CtySet_validate_call(sets, 1, value) :
        CalledSet("validate", value, effect, "validated")

CallSetAdd ==
    CanCallSet /\ \E element \in SetElements : \E effect \in CtySet_add(sets, 1, element) :
        CalledSet("add", element, effect, "added")

CallSetRemove ==
    CanCallSet /\ \E item \in SetElements : \E effect \in CtySet_remove(sets, 1, item) :
        CalledSet("remove", item, effect, "removed")

\* s = s.validate(...) or s = s.remove(...): the caller keeps the returned Set.
KeepReturnedSet ==
    /\ Len(sets) = 2
    /\ sets' = <<sets[2]>>
    /\ pc' = "kept"
    /\ self' = 0
    /\ arg' = NoCall
    /\ ret' = NotCalled
    /\ UNCHANGED <<again, other, objects>>

NextSet == CallSetValidate \/ CallSetAdd \/ CallSetRemove \/ KeepReturnedSet

SpecSet == InitSet /\ [][NextSet]_vars

\* C10: add and remove are pure functional updates: each returns a new Set value
\* and leaves the members of the receiver as they were before the call.
C10_SetUpdatesPure ==
    [][(pc' \in {"added", "removed"} /\ ret'.ok) =>
          /\ \A i \in DOMAIN sets : sets'[i] = sets[i]
          /\ ret'.value = Ref(Len(sets) + 1)
          /\ Len(sets') = Len(sets) + 1
    ]_vars

\* A Set as validate returns it: every member is a validated element.
IsValidatedSet(s) == \A m \in Payload(s).value : IsCtyType(m)

\* C29: add accepts valid elements on any validated Set, empty or not: for an
\* element that element_type accepts, add succeeds and the set then holds the
\* previous members plus the element in the representation validate gives its
\* members; add of an element that element_type rejects fails with a validation
\* error and leaves the members unchanged.
C29_AddAcceptsValid ==
    [][(pc' = "added" /\ IsValidatedSet(sets[1])) =>
          LET before == Payload(sets[1]).value
              after == Payload(sets'[1]).value
              validated == {r \in Validate(Payload(sets[1]).element_type, arg'.value) : r.ok}
          IN  /\ validated # {} =>
                    /\ ret'.ok
                    /\ before \subseteq after
                    /\ after \subseteq before \cup {r.value : r \in validated}
                    /\ \A r \in validated : PySetHas(after, r.value)
              /\ validated = {} =>
                    /\ ~ret'.ok
                    /\ ret'.err.cls = "ValidationError"
                    /\ after = before
    ]_vars

\* C30: remove removes only the matching member: for a validated Set of Bool,
\* Number or String and an element that element_type accepts, remove returns a
\* Set whose members are exactly the members whose value differs from the
\* element; removing a value that is no member returns a Set with the same members.
C30_RemoveOnlyMatching ==
    [][(/\ pc' = "removed" /\ IsValidatedSet(sets[1])
        /\ Accepts(Payload(sets[1]).element_type, arg'.value)) =>
          /\ ret'.ok
          /\ Payload(sets'[Payload(ret'.value)]).value =
                {m \in Payload(sets[1]).value : ~PyEq(MemberValue(m), arg'.value)}
    ]_vars

(***************************************************************************)
(* SpecMap: a caller builds a Map, validates a raw value against it and    *)
(* then tries to change the container validate returned, or a container    *)
(* nested in it.                                                           *)
(***************************************************************************)
\* The keyword mutable as the caller can give it: omitted, True or False.
MutableOptions == {FieldDefault("mutable"), PyBool(TRUE), PyBool(FALSE)}

\* CtyMap(key_type=..., value_type=..., mutable=...), key_type None when omitted.
NewMap(key_type, value_type, mutable) ==
    CtyMap_init(key_type, value_type, FieldDefault("metadata"), FieldDefault("default"),
                mutable).value

InnerMaps ==
    {NewMap(PyNone, StringType, mutable) : mutable \in MutableOptions}
    \cup {NewMap(NumberType, StringType, FieldDefault("mutable")),
          NewMap(PyNone, NumberType, FieldDefault("mutable"))}

MapDescriptors ==
    {NewMap(key_type, value_type, mutable) :
        key_type \in {PyNone, NumberType},
        value_type \in {StringType, NumberType} \cup InnerMaps,
        mutable \in MutableOptions}

MapKeys == {PyStr("a"), PyInt(1)}
MapValues ==
    {PyInt(1), PyStr("s"), PyList(<<>>),
     PyDict([k \in {PyStr("b")} |-> PyStr("c")]), PyDict([k \in {PyInt(1)} |-> PyStr("c")])}
MapRawValues ==
    {PyNone, PyStr("a"), PyList(<<>>)}
    \cup {PyDict(d) : d \in DictsOver(MapKeys, MapValues)}

\* container[key] = value and del container[key] on what validate returned
\* (line 73): a mappingproxy supports neither.  The result is the container
\* afterwards and what the statement returned or raised.
Mapping_setitem(container, key, value) ==
    IF TypeName(container) = "mappingproxy"
    THEN <<container,
           Raise("TypeError", <<Part("'mappingproxy' object does not support item assignment", {})>>)>>
    ELSE <<PyDict([k \in DOMAIN Payload(container) \cup {key} |->
                      IF k = key THEN value ELSE Payload(container)[k]]),
           Ok(PyNone)>>

Mapping_delitem(container, key) ==
    IF TypeName(container) = "mappingproxy"
    THEN <<container,
           Raise("TypeError", <<Part("'mappingproxy' object does not support item deletion", {})>>)>>
    ELSE <<PyDict([k \in DOMAIN Payload(container) \ {key} |-> Payload(container)[k]]),
           Ok(PyNone)>>

\* An insert, an overwrite or a delete of an entry of the container.
Mutations(container) ==
    {Mapping_setitem(container, key, PyStr("new")) :
        key \in DOMAIN Payload(container) \cup {PyStr("new")}}
    \cup {Mapping_delitem(container, key) : key \in DOMAIN Payload(container)}

InitMap ==
    /\ pc = "start"
    /\ self \in MapDescriptors
    /\ arg \in MapRawValues
    /\ ret = NotCalled
    /\ again = NotCalled
    /\ other = PyNone
    /\ objects = <<>>
    /\ sets = <<>>

\* ret = self.validate(arg)
CallMapValidate ==
    /\ pc = "start"
    /\ ret' \in Validate(self, arg)
    /\ pc' = "validated"
    /\ UNCHANGED <<self, arg, again, other, objects, sets>>

\* ret[key] = value, or del ret[key]
MutateResult ==
    /\ pc = "validated"
    /\ ret.ok
    /\ \E m \in Mutations(ret.value) :
          /\ ret' = [ret EXCEPT !.value = m[1]]
          /\ again' = m[2]
    /\ pc' = "mutated"
    /\ UNCHANGED <<self, arg, other, objects, sets>>

\* ret[at][key] = value, or del ret[at][key], for a nested map at ret[at]
MutateNested ==
    /\ pc = "validated"
    /\ ret.ok
    /\ \E at \in DOMAIN Payload(ret.value) :
          /\ IsMapping(Payload(ret.value)[at])
          /\ \E m \in Mutations(Payload(ret.value)[at]) :
                /\ ret' = [ret EXCEPT !.value =
                              <<TypeName(ret.value), [Payload(ret.value) EXCEPT ![at] = m[1]]>>]
                /\ again' = m[2]
          /\ other' = at
    /\ pc' = "mutated_nested"
    /\ UNCHANGED <<self, arg, objects, sets>>

NextMap == CallMapValidate \/ MutateResult \/ MutateNested

SpecMap == InitMap /\ [][NextMap]_vars

\* C12: the container Map.validate returns rejects every insert, overwrite and
\* delete when the Map was built with mutable=False or without the keyword
\* (the default), and permits them when it was built with mutable=True; the
\* same holds for the containers of nested maps.
C12_MutationFollowsMutable ==
    pc \in {"mutated", "mutated_nested"} =>
        (again.ok <=> Payload(self).mutable = PyBool(TRUE))

\* A raw value conforms to a descriptor: for a Map, it is a mapping whose keys
\* conform to the Map's key_type and whose values conform to its value_type.
RECURSIVE Conforms(_, _)
Conforms(T, v) ==
    IF TypeName(T) = "CtyMap"
    THEN /\ TypeName(v) = "dict"
         /\ \A k \in DOMAIN Payload(v) :
               /\ Conforms(Payload(T).key_type, k)
               /\ Conforms(Payload(T).value_type, Payload(v)[k])
    ELSE Accepts(T, v)

\* C13: Map.validate fails on a raw value that is no mapping; when it succeeds,
\* every key satisfies key_type and every value satisfies value_type, at every
\* nesting level against the nested Map's own key_type and value_type.
C13_MapEntriesConform ==
    pc = "validated" =>
        /\ TypeName(arg) # "dict" => ~ret.ok
        /\ ret.ok => Conforms(self, arg)

\* The entries of the raw mapping are bare strings offered to a Map whose
\* value_type is a Map, under keys the Map's key_type accepts.
IsPromotionCall ==
    /\ pc = "validated"
    /\ TypeName(Payload(self).value_type) = "CtyMap"
    /\ TypeName(arg) = "dict" /\ DOMAIN Payload(arg) # {}
    /\ \A k \in DOMAIN Payload(arg) :
          IsStr(Payload(arg)[k]) /\ Accepts(Payload(self).key_type, k)

\* The result value at key k is the single-entry map {s: s}.
IsPromoted(k) ==
    /\ k \in DOMAIN Payload(ret.value)
    /\ IsMapping(Payload(ret.value)[k])
    /\ Payload(Payload(ret.value)[k]) = [x \in {Payload(arg)[k]} |-> Payload(arg)[k]]

PromotionAccepted(value_type, s) ==
    Accepts(Payload(value_type).key_type, s) /\ Accepts(Payload(value_type).value_type, s)

KeyName(k) == IF IsStr(k) THEN Payload(k) ELSE ToString(Payload(k))

\* C26: validation errors compose across nesting levels: the error of a failed
\* validate names the path to the failing value; for a Map, the key of the
\* entry that failed.
C26_ErrorNamesKey ==
    (pc = "validated" /\ TypeName(arg) = "dict" /\ ~ret.ok) =>
        \E k \in DOMAIN Payload(arg) : KeyName(k) \in NamesIn(ret)

(***************************************************************************)
(* usable_as.  UsableAs(a, b) is what a.usable_as(b) returns or raises.    *)
(***************************************************************************)
\* issubclass(a, b) for native classes (bool is a subclass of int)
IsSubclass(a, b) ==
    \/ Payload(a) = Payload(b)
    \/ Payload(a) = "bool" /\ Payload(b) = "int"
    \/ Payload(b) = "object"

RECURSIVE UsableAs(_, _)

\* CtyBool, CtyNumber, CtyString: isinstance(other, <own class>)
Primitive_usable_as(this, that) == Ok(PyBool(TypeName(that) = TypeName(this)))

\* A Dynamic that is usable as anything.
CtyDynamic_usable_as_anything(this, that) == Ok(PyBool(TRUE))

CtyDynamic_usable_as(this, that) == Ok(PyBool(TypeName(that) = "CtyDynamic"))

\* CtyList.usable_as reads self.types, an attribute CtyList (slots, the one
\* field element_type) does not have.
CtyList_usable_as(this, that) ==
    IF TypeName(that) # "CtyList" THEN Ok(PyBool(FALSE))
    ELSE Raise("AttributeError", <<Part("'CtyList' object has no attribute 'types'", {})>>)

CtySet_usable_as(this, that) ==
    IF TypeName(that) # "CtySet" THEN Ok(PyBool(FALSE))
    ELSE UsableAs(Payload(this).element_type, Payload(that).element_type)

CtyMap_usable_as(this, that) ==
    IF TypeName(that) # "CtyMap" THEN Ok(PyBool(FALSE))
    ELSE UsableAs(Payload(this).value_type, Payload(that).value_type)

\* CtyTuple.usable_as: all(issubclass(s, o) for s, o in zip(...)) stops at the
\* shorter of the two and at the first pair that is false or raises.
CtyTuple_usable_as(this, that) ==
    IF TypeName(that) # "CtyTuple" THEN Ok(PyBool(FALSE))
    ELSE LET mine == Payload(this)
             theirs == Payload(that)
             pairs == {i \in DOMAIN mine : i \in DOMAIN theirs}
             classes(i) == TypeName(mine[i]) = "type" /\ TypeName(theirs[i]) = "type"
             stops == {i \in pairs : ~classes(i) \/ ~IsSubclass(mine[i], theirs[i])}
             first == CHOOSE i \in stops : \A j \in stops : i <= j
         IN  IF stops = {} THEN Ok(PyBool(TRUE))
             ELSE IF ~classes(first)
             THEN Raise("TypeError", <<Part("issubclass() argument must be a class", {ToString(first - 1)})>>)
             ELSE Ok(PyBool(FALSE))

UsableAs(a, b) ==
    CASE TypeName(a) \in {"CtyBool", "CtyNumber", "CtyString"} -> Primitive_usable_as(a, b)
      [] TypeName(a) = "CtyDynamic" -> CtyDynamic_usable_as(a, b)
      [] TypeName(a) = "CtyList" -> CtyList_usable_as(a, b)
      [] TypeName(a) = "CtySet" -> CtySet_usable_as(a, b)
      [] TypeName(a) = "CtyMap" -> CtyMap_usable_as(a, b)
      [] TypeName(a) = "CtyTuple" -> CtyTuple_usable_as(a, b)
      [] TypeName(a) = "CtyObject" -> Ok(PyBool(CtyObject_usable_as(a, b)))

(***************************************************************************)
(* SpecKinds: a caller compares two descriptors of any kind with equal and *)
(* usable_as.                                                              *)
(***************************************************************************)
SlotClasses == {PyClass("str"), PyClass("int"), PyClass("bool")}

KindDescriptors ==
    {BoolType, NumberType, StringType, CtyString(PyStr("a")), CtyDynamic,
     CtyBool(PyBool(TRUE)), CtyNumber(PyInt(1)),
     CtySet(StringType, {CtyString(PyStr("a"))}), CtyList(CtyString(PyStr("a"))),
     CtyTuple(<<CtyString(PyStr("a"))>>),
     CtyObject([n \in {"x"} |-> CtyString(PyStr("a"))], {}, {}, {}, {}),
     CtyList(StringType), CtyList(NumberType), CtyList(CtyDynamic),
     CtySet(StringType, {}), CtySet(NumberType, {}), CtySet(CtyList(StringType), {}),
     MapOf(StringType), MapOf(NumberType), ImmutableMapOf(StringType), MapOf(CtyList(StringType)),
     CtyTuple(<<StringType>>), CtyTuple(<<StringType, NumberType>>),
     CtyObject([n \in {"x"} |-> StringType], {}, {}, {}, {}),
     CtyObject([n \in {"x"} |-> NumberType], {}, {}, {}, {}),
     CtyObject([n \in {"x"} |-> StringType], {"x"}, {}, {}, {})}
    \cup {CtyTuple(q) : q \in SeqsOver(SlotClasses, MaxLen)}

InitKinds ==
    /\ pc = "start"
    /\ self \in KindDescriptors
    /\ other \in KindDescriptors
    /\ arg = PyNone
    /\ ret = NotCalled
    /\ again = NotCalled
    /\ objects = <<>>
    /\ sets = <<>>

\* ret = self.equal(other)
CallDescriptorEqual ==
    /\ pc = "start"
    /\ ret' = Ok(PyBool(Equal(self, other)))
    /\ pc' = "equal"
    /\ UNCHANGED <<self, arg, again, other, objects, sets>>

\* ret = self.usable_as(other)
CallDescriptorUsableAs ==
    /\ pc = "start"
    /\ ret' = UsableAs(self, other)
    /\ pc' = "usable_as"
    /\ UNCHANGED <<self, arg, again, other, objects, sets>>

NextKinds == CallDescriptorEqual \/ CallDescriptorUsableAs

SpecKinds == InitKinds /\ [][NextKinds]_vars

\* C15: for Lists a and b, a.equal(b) is true iff their element types are
\* equal, and a.usable_as(b) returns true iff a's element type is usable as b's;
\* usable_as returns false, without raising, when b is no List or the element
\* types are incompatible.
C15_ListCompare ==
    TypeName(self) = "CtyList" =>
        /\ pc = "equal" =>
              ret = Ok(PyBool(/\ TypeName(other) = "CtyList"
                              /\ Equal(Payload(self), Payload(other))))
        /\ pc = "usable_as" =>
              ret = Ok(PyBool(/\ TypeName(other) = "CtyList"
                              /\ UsableAs(Payload(self), Payload(other)) = Ok(PyBool(TRUE))))

\* Two slots of tuples are equal, or one is usable as the other: as descriptors
\* when they are descriptors, as native classes otherwise.
SlotEqual(a, b) == IF IsCtyType(a) /\ IsCtyType(b) THEN Equal(a, b) ELSE a = b
SlotUsableAs(a, b) ==
    IF IsCtyType(a) /\ IsCtyType(b) THEN UsableAs(a, b) = Ok(PyBool(TRUE))
    ELSE TypeName(a) = "type" /\ TypeName(b) = "type" /\ IsSubclass(a, b)

\* C18: for Tuples a and b, a.equal(b) is true iff they have the same arity and
\* every pair of slots is equal, and a.usable_as(b) is true iff they have the
\* same arity and every slot of a is usable as the slot of b at its position;
\* Tuples of different arity are neither equal nor usable as each other.
C18_TupleCompare ==
    (TypeName(self) = "CtyTuple" /\ TypeName(other) = "CtyTuple") =>
        LET same_arity == Len(Payload(self)) = Len(Payload(other)) IN
        /\ pc = "equal" =>
              ret = Ok(PyBool(/\ same_arity
                              /\ \A i \in DOMAIN Payload(self) :
                                    SlotEqual(Payload(self)[i], Payload(other)[i])))
        /\ pc = "usable_as" =>
              ret = Ok(PyBool(/\ same_arity
                              /\ \A i \in DOMAIN Payload(self) :
                                    SlotUsableAs(Payload(self)[i], Payload(other)[i])))

\* C20: equal and usable_as are nominal in the kind: descriptors of different
\* kinds are never equal, and for a primitive or a Dynamic a, a.equal(b) and
\* a.usable_as(b) are both true exactly when b is of a's kind, false otherwise.
C20_Nominal ==
    /\ (pc = "equal" /\ TypeName(self) # TypeName(other)) => ret = Ok(PyBool(FALSE))
    /\ ( /\ pc \in {"equal", "usable_as"}
         /\ TypeName(self) \in {"CtyBool", "CtyNumber", "CtyString", "CtyDynamic"} )
       => ret = Ok(PyBool(TypeName(other) = TypeName(self)))

\* C20 witness: Dynamic.usable_as(String) has returned false.
C20_Witness ==
    /\ pc = "usable_as" /\ self = CtyDynamic /\ other = StringType
    /\ ret = Ok(PyBool(FALSE))

\* The shape parameters of a descriptor: the descriptor without the values it
\* and its nested descriptors carry.
RECURSIVE Shape(_)
Shape(d) ==
    CASE TypeName(d) = "CtyBool" -> BoolType
      [] TypeName(d) = "CtyNumber" -> NumberType
      [] TypeName(d) = "CtyString" -> StringType
      [] TypeName(d) = "CtyList" -> CtyList(Shape(Payload(d)))
      [] TypeName(d) = "CtySet" -> CtySet(Shape(Payload(d).element_type), {})
      [] TypeName(d) = "CtyTuple" ->
            CtyTuple([i \in DOMAIN Payload(d) |-> Shape(Payload(d)[i])])
      [] TypeName(d) = "CtyMap" ->
            <<"CtyMap", [Payload(d) EXCEPT !.key_type = Shape(@), !.value_type = Shape(@)]>>
      [] TypeName(d) = "CtyObject" ->
            <<"CtyObject", [Payload(d) EXCEPT
                               !.attribute_types = [n \in DOMAIN @ |-> Shape(@[n])]]>>
      [] OTHER -> d

\* C21: equal and usable_as never depend on carried values: every pair of
\* descriptors with the shapes of self and other gets the result self and
\* other got.
C21_ValueIndependent ==
    \A a, b \in KindDescriptors :
        (Shape(a) = Shape(self) /\ Shape(b) = Shape(other)) =>
            /\ pc = "equal" => ret = Ok(PyBool(Equal(a, b)))
            /\ pc = "usable_as" => ret = UsableAs(a, b)

(***************************************************************************)
(* One descriptor tree shared by several callers.  objects[1] is the       *)
(* shared tree and other its value at construction; pc, arg, ret and again *)
(* are functions of the caller: its position, its call, its result and the *)
(* local variables of a Set.validate in flight (items, the index of the    *)
(* next item, validated, validation_errors).  Set.validate is interleaved  *)
(* item by item; every other call reads the tree when it returns.          *)
(***************************************************************************)
Callers == {1, 2}

SharedDescriptors ==
    {NumberType,
     CtySet(StringType, {}), CtySet(NumberType, {CtyNumber(PyInt(1))}),
     CtySet(CtyList(NumberType), {}),
     CtyList(NumberType), MapOf(StringType), ExampleObject}

SharedInputs ==
    {PyNone, PyInt(1), PyStr("a"),
     PyList(<<PyInt(1), PyInt(MaxNumber)>>), PyList(<<PyStr("a"), PyInt(1)>>),
     PySet({PyInt(1), PyStr("a")}),
     PyList(<<PyList(<<PyInt(1)>>)>>),
     PyDict([k \in {PyStr("name")} |-> PyStr("a")])}

NoSharedCall == [op |-> "none", value |-> PyNone]
NoFrame == [items |-> <<>>, i |-> 0, validated |-> {}, errors |-> <<>>]

\* validate reaches its loop: value is not None, iterable, no str, not empty
EntersLoop(this, value) ==
    TypeName(this) = "CtySet" /\ value # PyNone /\ IsIterable(value) /\ ~IsFalsy(value)

\* One pass of the loop with the accumulator kept on the descriptor.
CtySet_validate_iterate_on_self(instances, this, frame, r) ==
    LET validated == IF r.ok THEN PySetAdd(Payload(instances[this]).value, r.value)
                     ELSE Payload(instances[this]).value
    IN  [instances |-> [instances EXCEPT ![this] =
                           CtySet(Payload(@).element_type, validated)],
         frame |-> [frame EXCEPT
                       !.i = @ + 1,
                       !.validated = validated,
                       !.errors = IF r.ok THEN @
                                  ELSE @ \o <<Part("Item", {ToString(frame.i - 1)})>>
                                         \o r.err.parts]]

\* One pass of the loop, r being what freeze_nested_sets(item) returned or
\* raised: validated and validation_errors are local variables.
CtySet_validate_iterate(instances, this, frame, r) ==
    [instances |-> instances,
     frame |-> [frame EXCEPT
                   !.i = @ + 1,
                   !.validated = IF r.ok THEN PySetAdd(@, r.value) ELSE @,
                   !.errors = IF r.ok THEN @
                              ELSE @ \o <<Part("Item", {ToString(frame.i - 1)})>>
                                     \o r.err.parts]]

\* A validate that stores the validated members on the descriptor and returns it.
CtySet_validate_assign(instances, this, frame) ==
    IF frame.errors # <<>>
    THEN Effect(instances,
                Raise("ValidationError",
                      <<Part("CtySet validation failed:", {})>> \o frame.errors))
    ELSE Effect([instances EXCEPT ![this] = CtySet(Payload(@).element_type, frame.validated)],
                Ok(CtySet(Payload(instances[this]).element_type, frame.validated)))

\* After the loop: raise the collected errors, or return evolve(self, value=validated).
CtySet_validate_evolve(instances, this, frame) ==
    Effect(instances,
           IF frame.errors # <<>>
           THEN Raise("ValidationError",
                      <<Part("CtySet validation failed:", {})>> \o frame.errors)
           ELSE Ok(CtySet(Payload(instances[this]).element_type, frame.validated)))

InitShared ==
    /\ other \in SharedDescriptors
    /\ objects = <<other>>
    /\ self = 1
    /\ pc = [c \in Callers |-> "idle"]
    /\ arg = [c \in Callers |-> NoSharedCall]
    /\ ret = [c \in Callers |-> NotCalled]
    /\ again = [c \in Callers |-> NoFrame]
    /\ sets = <<>>

\* A caller calls validate(value) on the shared tree.
BeginValidate ==
    \E c \in Callers : \E value \in SharedInputs :
        /\ pc[c] = "idle"
        /\ arg' = [arg EXCEPT ![c] = [op |-> "validate", value |-> value]]
        /\ IF EntersLoop(objects[self], value)
           THEN \E items \in Iterations(value) :
                   /\ again' = [again EXCEPT ![c] = [NoFrame EXCEPT !.items = items, !.i = 1]]
                   /\ pc' = [pc EXCEPT ![c] = "looping"]
           ELSE /\ pc' = [pc EXCEPT ![c] = "validating"]
                /\ UNCHANGED again
        /\ UNCHANGED <<self, ret, other, objects, sets>>

\* The loop of a Set.validate in flight handles its next item.
StepSetValidate ==
    \E c \in Callers :
        /\ pc[c] = "looping"
        /\ again[c].i <= Len(again[c].items)
        /\ \E r \in CtySet_item(Payload(objects[self]).element_type,
                                again[c].items[again[c].i]) :
              LET step == CtySet_validate_iterate(objects, self, again[c], r) IN
              /\ objects' = step.instances
              /\ again' = [again EXCEPT ![c] = step.frame]
        /\ UNCHANGED <<pc, self, arg, ret, other, sets>>

\* A Set.validate in flight leaves its loop and returns or raises.
ReturnSetValidate ==
    \E c \in Callers :
        /\ pc[c] = "looping"
        /\ again[c].i > Len(again[c].items)
        /\ LET effect == CtySet_validate_evolve(objects, self, again[c]) IN
              /\ objects' = effect.instances
              /\ ret' = [ret EXCEPT ![c] = effect.ret]
        /\ pc' = [pc EXCEPT ![c] = "returned"]
        /\ again' = [again EXCEPT ![c] = NoFrame]
        /\ UNCHANGED <<self, arg, other, sets>>

\* A validate without a loop of its own in this model returns or raises.
ReturnValidate ==
    \E c \in Callers :
        /\ pc[c] = "validating"
        /\ \E r \in Validate(objects[self], arg[c].value) :
              ret' = [ret EXCEPT ![c] = r]
        /\ pc' = [pc EXCEPT ![c] = "returned"]
        /\ UNCHANGED <<self, arg, again, other, objects, sets>>

\* A caller calls equal(that) on the shared tree.
CallSharedEqual ==
    \E c \in Callers : \E that \in SharedDescriptors :
        /\ pc[c] = "idle"
        /\ arg' = [arg EXCEPT ![c] = [op |-> "equal", value |-> that]]
        /\ ret' = [ret EXCEPT ![c] = Ok(PyBool(Equal(objects[self], that)))]
        /\ pc' = [pc EXCEPT ![c] = "returned"]
        /\ UNCHANGED <<self, again, other, objects, sets>>

\* A caller calls usable_as(that) on the shared tree.
CallSharedUsableAs ==
    \E c \in Callers : \E that \in SharedDescriptors :
        /\ pc[c] = "idle"
        /\ arg' = [arg EXCEPT ![c] = [op |-> "usable_as", value |-> that]]
        /\ ret' = [ret EXCEPT ![c] = UsableAs(objects[self], that)]
        /\ pc' = [pc EXCEPT ![c] = "returned"]
        /\ UNCHANGED <<self, again, other, objects, sets>>

\* The caller takes its result and is ready for its next call.
NextCall ==
    \E c \in Callers :
        /\ pc[c] = "returned"
        /\ pc' = [pc EXCEPT ![c] = "idle"]
        /\ arg' = [arg EXCEPT ![c] = NoSharedCall]
        /\ ret' = [ret EXCEPT ![c] = NotCalled]
        /\ UNCHANGED <<self, again, other, objects, sets>>

NextShared ==
    \/ BeginValidate
    \/ StepSetValidate
    \/ ReturnSetValidate
    \/ ReturnValidate
    \/ CallSharedEqual
    \/ CallSharedUsableAs
    \/ NextCall

SpecShared == InitShared /\ [][NextShared]_vars

\* What a call returns or raises on a freshly constructed descriptor.
RunAlone(descriptor, call) ==
    CASE call.op = "validate" -> Validate(descriptor, call.value)
      [] call.op = "equal" -> {Ok(PyBool(Equal(descriptor, call.value)))}
      [] call.op = "usable_as" -> {UsableAs(descriptor, call.value)}
      [] OTHER -> {}

\* C22: validate never changes the descriptor: whatever validate calls were
\* made, failing or succeeding, the descriptor and its nested descriptors equal
\* their value at construction; a validate that has returned has the outcome it
\* has on a freshly constructed descriptor; and a failing call has one error
\* and no result value.
C22_ValidateReadOnly ==
    /\ objects = <<other>>
    /\ \A c \in Callers :
          (pc[c] = "returned" /\ arg[c].op = "validate") =>
              /\ ret[c] \in Validate(other, arg[c].value)
              /\ ~ret[c].ok => (ret[c].value = PyNone /\ ret[c].err.cls # ""
                                /\ ret[c].err.parts # <<>>)

\* C22 witness: a validate that failed and a validate that succeeded have both
\* returned on the same Set.
C22_Witness ==
    /\ TypeName(other) = "CtySet"
    /\ pc[1] = "returned" /\ arg[1].op = "validate" /\ ~ret[1].ok
    /\ pc[2] = "returned" /\ arg[2].op = "validate" /\ ret[2].ok
    /\ Payload(ret[2].value).value # {}

\* C23: under every interleaving of validate, equal and usable_as calls of
\* several callers on one shared tree, no step changes a field of a descriptor
\* of the tree, and a call that returns returns what it returns when run alone.
C23_SafelyShared ==
    [][/\ objects' = objects
       /\ \A c \in Callers :
             (pc[c] # "returned" /\ pc'[c] = "returned") =>
                 ret'[c] \in RunAlone(objects[self], arg'[c])]_vars

\* C23 witness: one caller's call has returned a Set while the Set.validate of
\* the other caller is in the middle of its loop with members collected.
C23_Witness ==
    /\ pc[1] = "looping" /\ again[1].i > 1 /\ again[1].validated # {}
    /\ again[1].i <= Len(again[1].items)
    /\ pc[2] = "returned" /\ ret[2].ok /\ arg[2].op = "validate"
    /\ TypeName(ret[2].value) = "CtySet" /\ Payload(ret[2].value).value # {}

(***************************************************************************)
(* The metadata and default mappings of a Map, with the identity of the    *)
(* dicts involved.  objects is the heap of dicts, each a function from its *)
(* keys to strings or to references to other dicts; again is the number of *)
(* dicts the caller built before constructing the Map; self holds the      *)
(* fields of the constructed Map and other their contents at construction. *)
(***************************************************************************)
DictRef(id) == <<"dictref", id>>
ProxyRef(id) == <<"proxyref", id>>
IsDictRef(v) == TypeName(v) = "dictref"
IsMappingRef(v) == TypeName(v) \in {"dictref", "proxyref"}

MetaKeys == {"a", "b"}

\* d[key] = value
Dict_setitem(d, key, value) ==
    [k \in DOMAIN d \cup {key} |-> IF k = key THEN value ELSE d[k]]

\* del d[key]
Dict_delitem(d, key) == [k \in DOMAIN d \ {key} |-> d[k]]

\* The contents of a value, every reference replaced by what it refers to.
RECURSIVE Contents(_, _)
Contents(heap, v) ==
    CASE TypeName(v) = "dictref" ->
            PyDict([k \in DOMAIN heap[Payload(v)] |-> Contents(heap, heap[Payload(v)][k])])
      [] TypeName(v) = "proxyref" ->
            MappingProxy([k \in DOMAIN heap[Payload(v)] |->
                             Contents(heap, heap[Payload(v)][k])])
      [] OTHER -> v

\* copy.deepcopy(d) of the dict at id: a new dict whose dict values are deep
\* copies themselves.  The result is the new heap and the place of the copy.
RECURSIVE DeepCopy(_, _)
RECURSIVE DeepCopyEntries(_, _, _, _)
DeepCopy(heap, id) ==
    DeepCopyEntries(Append(heap, heap[id]), Len(heap) + 1, id,
                    CHOOSE order \in Orders(DOMAIN heap[id]) : TRUE)
DeepCopyEntries(heap, copy, id, keys) ==
    IF keys = <<>> THEN [heap |-> heap, id |-> copy]
    ELSE IF IsDictRef(heap[id][Head(keys)])
    THEN LET nested == DeepCopy(heap, Payload(heap[id][Head(keys)])) IN
         DeepCopyEntries([nested.heap EXCEPT ![copy][Head(keys)] = DictRef(nested.id)],
                         copy, id, Tail(keys))
    ELSE DeepCopyEntries(heap, copy, id, Tail(keys))

\* Lines 41-45 and 47-51: a dict is deep-copied, and wrapped in a
\* MappingProxyType unless mutable is truthy; anything else is kept as passed.
CtyMap_store(heap, passed, mutable) ==
    IF IsDictRef(passed)
    THEN LET copied == DeepCopy(heap, Payload(passed)) IN
         [heap |-> copied.heap,
          stored |-> IF ~Truthy(mutable) THEN ProxyRef(copied.id) ELSE DictRef(copied.id)]
    ELSE [heap |-> heap, stored |-> passed]

\* The dicts a caller has built: a flat one, or one holding another.
CallerHeaps ==
    {<<[k \in {"a"} |-> PyStr("s")]>>,
     <<[k \in {"a"} |-> DictRef(2)], [k \in {"b"} |-> PyStr("c")]>>}

InitMeta ==
    /\ pc = "start"
    /\ objects \in CallerHeaps
    /\ again = Len(objects)
    /\ arg \in [metadata : {DictRef(1), PyNone, FieldDefault("metadata")},
                default : {DictRef(1), PyNone, FieldDefault("default")},
                mutable : MutableOptions]
    /\ self = PyNone
    /\ other = PyNone
    /\ ret = NotCalled
    /\ sets = <<>>

\* CtyMap(value_type=CtyString(), metadata=..., default=..., mutable=...)
ConstructMap ==
    /\ pc = "start"
    /\ LET metadata == CtyMap_store(objects, arg.metadata, arg.mutable)
           default == CtyMap_store(metadata.heap, arg.default, arg.mutable)
       IN  /\ objects' = default.heap
           /\ self' = [metadata |-> metadata.stored, default |-> default.stored,
                       mutable |-> arg.mutable]
           /\ other' = [metadata |-> Contents(default.heap, metadata.stored),
                        default |-> Contents(default.heap, default.stored)]
    /\ pc' = "constructed"
    /\ UNCHANGED <<arg, ret, again, sets>>

\* The caller assigns to a key of one of the dicts it built, at any depth.
CallerSetItem ==
    /\ pc \in {"constructed", "caller_mutated"}
    /\ \E id \in 1..again : \E key \in MetaKeys :
          objects' = [objects EXCEPT ![id] = Dict_setitem(@, key, PyStr("z"))]
    /\ pc' = "caller_mutated"
    /\ UNCHANGED <<self, arg, ret, again, other, sets>>

\* The caller deletes a key of one of the dicts it built, at any depth.
CallerDelItem ==
    /\ pc \in {"constructed", "caller_mutated"}
    /\ \E id \in 1..again : \E key \in DOMAIN objects[id] :
          objects' = [objects EXCEPT ![id] = Dict_delitem(@, key)]
    /\ pc' = "caller_mutated"
    /\ UNCHANGED <<self, arg, ret, again, other, sets>>

\* m.metadata[key] = "z" or m.default[key] = "z" on the constructed Map: a
\* mappingproxy has no item assignment.
DescriptorSetItem ==
    /\ pc \in {"constructed", "caller_mutated"}
    /\ \E name \in {"metadata", "default"} : \E key \in MetaKeys :
          /\ IsMappingRef(self[name])
          /\ arg' = [field |-> name, depth |-> 0]
          /\ IF IsDictRef(self[name])
             THEN /\ objects' = [objects EXCEPT ![Payload(self[name])] =
                                    Dict_setitem(@, key, PyStr("z"))]
                  /\ ret' = Ok(PyNone)
             ELSE /\ objects' = objects
                  /\ ret' = Raise("TypeError",
                                  <<Part("'mappingproxy' object does not support item assignment",
                                         {})>>)
    /\ pc' = "descriptor_mutated"
    /\ UNCHANGED <<self, again, other, sets>>

\* m.metadata[outer][key] = "z" or m.default[outer][key] = "z": the value read
\* through the dict or the mappingproxy is a dict.
DescriptorNestedSetItem ==
    /\ pc \in {"constructed", "caller_mutated"}
    /\ \E name \in {"metadata", "default"} : \E key \in MetaKeys :
          /\ IsMappingRef(self[name])
          /\ \E outer \in DOMAIN objects[Payload(self[name])] :
                LET nested == objects[Payload(self[name])][outer] IN
                /\ IsDictRef(nested)
                /\ objects' = [objects EXCEPT ![Payload(nested)] =
                                  Dict_setitem(@, key, PyStr("z"))]
          /\ arg' = [field |-> name, depth |-> 1]
          /\ ret' = Ok(PyNone)
    /\ pc' = "descriptor_mutated"
    /\ UNCHANGED <<self, again, other, sets>>

NextMeta ==
    \/ ConstructMap
    \/ CallerSetItem
    \/ CallerDelItem
    \/ DescriptorSetItem
    \/ DescriptorNestedSetItem

SpecMeta == InitMeta /\ [][NextMeta]_vars

\* The metadata and default of the Map are what they were at construction.
MetaUnchanged ==
    /\ Contents(objects, self.metadata) = other.metadata
    /\ Contents(objects, self.default) = other.default

\* C24: whatever the caller does to the mappings it passed in, at any depth,
\* the metadata and default of the Map stay as constructed; with mutable=False
\* a mutation of the Map's own metadata or default is rejected and changes
\* nothing, and with mutable=True it is accepted.
C24_MetadataDeepCopied ==
    /\ pc \in {"constructed", "caller_mutated"} => MetaUnchanged
    /\ (pc = "descriptor_mutated" /\ self.mutable = PyBool(FALSE)) =>
           (~ret.ok /\ MetaUnchanged)
    /\ (pc = "descriptor_mutated" /\ self.mutable = PyBool(TRUE)) => ret.ok

(***************************************************************************)
(* The file-content resource under asyncio.gather: every task runs         *)
(* plan(config) and then apply(planned_state) against the same filename.   *)
(* objects is the file; pc, arg, again and ret are functions of the task:  *)
(* its position, the content of its config, the local variables of its     *)
(* plan and apply, and what its apply returned; self is the task the event *)
(* loop is running, 0 when it is choosing the next one.  A content is a    *)
(* sequence of chunks, written one by one.                                 *)
(***************************************************************************)
FileTasks == 1..(MaxNumber + 1)

\* The content of the config of task t, different for every task.
FileContent(t) == [i \in 1..MaxLen |-> t]

NoFile == [exists |-> FALSE, content |-> <<>>]
OldFile == [exists |-> TRUE, content |-> <<0>>]
NoLocals == [planned |-> <<>>, operation |-> "", offset |-> 0]

\* A plan and an apply that suspend while the content is being written.
Yields_while_writing(position) == position = "writing"

\* The awaits of plan and apply at which a task is suspended: plan holds no
\* await, and the only await of apply is self.delete on the delete path, so a
\* task that plans and applies a config never yields to the event loop.
Yields(position) == FALSE

\* The task the event loop is running after task t has reached position.
Running(t, position) ==
    IF position \in {"done", "raised"} \/ Yields(position) THEN 0 ELSE t

\* The event loop runs one task at a time, up to its next suspension.
CanRun(t) == self = t \/ self = 0

\* write(chunk) at offset: the bytes from offset on are replaced.
File_write(content, offset, chunk) ==
    [i \in 1..(IF offset + 1 > Len(content) THEN offset + 1 ELSE Len(content)) |->
        IF i = offset + 1 THEN chunk
        ELSE IF i <= Len(content) THEN content[i] ELSE 0]

InitFile ==
    /\ objects \in {NoFile, OldFile}
    /\ pc = [t \in FileTasks |-> "ready"]
    /\ arg = [t \in FileTasks |-> FileContent(t)]
    /\ again = [t \in FileTasks |-> NoLocals]
    /\ ret = [t \in FileTasks |-> NotCalled]
    /\ self = 0
    /\ other = PyNone
    /\ sets = <<>>

\* plan: planned_state = FileContentState(filename, config.content, exists=True)
Plan ==
    \E t \in FileTasks :
        /\ CanRun(t) /\ pc[t] = "ready"
        /\ again' = [again EXCEPT ![t].planned = arg[t]]
        /\ pc' = [pc EXCEPT ![t] = "planned"]
        /\ self' = Running(t, "planned")
        /\ UNCHANGED <<arg, ret, other, objects, sets>>

\* apply, lines 222-254: content taken from planned_state, the operation is
\* "update" if the file exists, and the file of this model is writable.
ApplyCheck ==
    \E t \in FileTasks :
        /\ CanRun(t) /\ pc[t] = "planned"
        /\ again' = [again EXCEPT
                        ![t].operation = IF objects.exists THEN "update" ELSE "create"]
        /\ pc' = [pc EXCEPT ![t] = "checked"]
        /\ self' = Running(t, "checked")
        /\ UNCHANGED <<arg, ret, other, objects, sets>>

\* path.write_text(content) opens the file for writing: created or truncated.
ApplyOpen ==
    \E t \in FileTasks :
        /\ CanRun(t) /\ pc[t] = "checked"
        /\ objects' = [exists |-> TRUE, content |-> <<>>]
        /\ again' = [again EXCEPT ![t].offset = 0]
        /\ pc' = [pc EXCEPT ![t] = "writing"]
        /\ self' = Running(t, "writing")
        /\ UNCHANGED <<arg, ret, other, sets>>

\* path.write_text(content) writes the next chunk, and closes after the last.
ApplyWrite ==
    \E t \in FileTasks :
        /\ CanRun(t) /\ pc[t] = "writing"
        /\ LET offset == again[t].offset
               position == IF offset + 1 = Len(again[t].planned) THEN "written" ELSE "writing"
           IN  /\ objects' = [objects EXCEPT
                                 !.content = File_write(@, offset, again[t].planned[offset + 1])]
               /\ again' = [again EXCEPT ![t].offset = offset + 1]
               /\ pc' = [pc EXCEPT ![t] = position]
               /\ self' = Running(t, position)
        /\ UNCHANGED <<arg, ret, other, sets>>

\* Lines 270-290: the file is read back; a difference raises ResourceError,
\* otherwise apply returns FileContentState(filename, content, exists=True).
ApplyVerify ==
    \E t \in FileTasks :
        /\ CanRun(t) /\ pc[t] = "written"
        /\ LET position == IF objects.content # again[t].planned THEN "raised" ELSE "done" IN
           /\ ret' = [ret EXCEPT ![t] =
                         IF position = "raised"
                         THEN Raise("ResourceError",
                                    <<Part("File content verification failed", {})>>)
                         ELSE Ok([content |-> again[t].planned, exists |-> TRUE])]
           /\ pc' = [pc EXCEPT ![t] = position]
           /\ self' = Running(t, position)
        /\ UNCHANGED <<arg, again, other, objects, sets>>

NextFile == Plan \/ ApplyCheck \/ ApplyOpen \/ ApplyWrite \/ ApplyVerify

SpecFile == InitFile /\ [][NextFile]_vars

\* The event loop runs every task that is ready to run.
SpecFileFair == SpecFile /\ WF_vars(NextFile)

AllFinished == \A t \in FileTasks : pc[t] \in {"done", "raised"}

====
